---- MODULE Spec2Model ----
(***************************************************************************)
(* Verification model of twoopt: the indexed linear model (Schema,         *)
(* RowIndex, data interface), the LP planner (LinsolvPlanner) and the      *)
(* discrete-event simulation (legacy_simulation).                          *)
(*                                                                         *)
(* Amounts, capacities and weights are floats in the program; the model    *)
(* draws them from small sets of integers, on which every arithmetic step  *)
(* of the code (sums, products, the generator's planned/tl) is exact.      *)
(***************************************************************************)
EXTENDS Integers, Sequences, FiniteSets, TLC

(***************************************************************************)
(* Bounds of the model.                                                    *)
(***************************************************************************)
\* largest index bound a schema of the RowIndex specification declares
MaxBound == 2
\* longest variable list of a RowIndex
MaxVars == 3
\* most arrival / capacity rows of a data file the planner is built on
MaxKeys == 3
\* largest arrival or capacity value of such a data file
MaxVal == 1
\* largest objective weight of such a data file
MaxAlpha == 2
\* nodes, loads and intervals of the simulated network
NJ == 2
NRho == 1
NL == 3
\* clock ticks per unit of time: t, dt and tl are counted in ticks, so that a
\* duration tl may be shorter than dt = 1.0
TimeScale == 2
\* longest duration tl of an interval, in ticks
MaxTl == 3
\* largest magnitude of a noise sample
MaxNoise == 2
\* arrivals per tick at the entry node; the plans and capacities of the
\* simulated network are small multiples of it
MaxRate == 1

\* raised by a failed assert (Python AssertionError)
AssertionError == "AssertionError"

(***************************************************************************)
(* Generic helpers on sequences.                                           *)
(***************************************************************************)
Range(s) == {s[k] : k \in DOMAIN s}

RECURSIVE SeqSum(_)
SeqSum(s) == IF s = <<>> THEN 0 ELSE Head(s) + SeqSum(Tail(s))

\* functools.reduce(mult, m, 1)
RECURSIVE reduce_mult(_)
reduce_mult(m) == IF m = <<>> THEN 1 ELSE Head(m) * reduce_mult(Tail(m))

\* list.index(a): the position of the first occurrence, counted from 0
list_index(s, a) == (CHOOSE k \in DOMAIN s : s[k] = a /\ \A m \in 1..(k - 1) : s[m] # a) - 1

\* all sequences without repetition over S of length 1..n
NoRepSeqs(S, n) ==
  {s \in UNION {[1..k -> S] : k \in 1..n} : \A a, b \in DOMAIN s : a # b => s[a] # s[b]}

(***************************************************************************)
(* State.                                                                  *)
(***************************************************************************)
VARIABLES
  indexbound,   \* Schema.data["indexbound"]: index name -> bound
  variables,    \* RowIndex.variables: the ordered variable names of the row
  ret,          \* the last call of the RowIndex API and what it returned
  provider,     \* DataInterface.provider: the dict (VAR, i1, ..., iN) -> value
  pc,           \* where the planner is: new, constructed, solved or failed
  eq_lhs,       \* LinsolvPlanner.eq_lhs: the rows of the equality system
  eq_rhs,       \* LinsolvPlanner.eq_rhs: their right-hand sides
  bnd,          \* LinsolvPlanner.bnd: [lower, upper] of every row position
  obj,          \* LinsolvPlanner.obj: the objective vector
  solution,     \* what scipy.optimize.linprog returned to solve()
  use_noise,    \* _SIM_USE_NOISE
  shuffle_ops,  \* _SIM_SHUFFLE_OPS
  tl_bounds,    \* VirtHelper.__tl_bounds: the time every interval ends at
  sim_global,   \* SimGlobal: t, l and dt
  containers,   \* Simulation.containers: (j, rho, l) -> Container.amount
  containers_processed, \* Simulation.containers_processed: (j, rho) -> amount
  transfer_ops, \* Simulation.transfer_ops: (j, i, rho, l) -> TransferOp
  store_ops,    \* Simulation.store_ops: (j, rho, l) -> StoreOp
  process_ops,  \* Simulation.process_ops: (j, rho, l) -> ProcessOp
  drop_ops,     \* Simulation.drop_ops: (j, rho, l) -> DropOp
  generate_ops, \* Simulation.generate_ops: (j, rho, l) -> GenerateOp
  step_pc,      \* the loop of Simulation.step / run the simulation is in
  todo,         \* the ops that loop has still to call
  done,         \* the calls (method, kind, idx) the Simulation.step under way has made
  trace,        \* the runs made of the data file: what every Simulation.step left behind
  csv_file,     \* the data file at VirtOpt.storage_path: its rows, and how often it was written
  csv_provider, \* VirtOpt.csv_provider: the persistent store
  virt_opt,     \* VirtOpt: where it is, conf_stop_n_iterations, the iterations made
  best_performer_config, \* the store of what GaSimVirtOpt.run returned last
  opt_hist,     \* the store loaded at construction, and the calls VirtOpt.run has made
  population    \* GaSimVirtOpt.population(): the genes

(***************************************************************************)
(* Schema.                                                                 *)
(***************************************************************************)
IndexNames == {"j", "i", "rho", "l"}

\* Schema.data["variableindices"]: the ordered index names of every variable
\* the planner and the simulation address.
variableindices ==
  [x      |-> <<"j", "i", "rho", "l">>,
   y      |-> <<"j", "rho", "l">>,
   g      |-> <<"j", "rho", "l">>,
   z      |-> <<"j", "rho", "l">>,
   x_eq   |-> <<"j", "rho", "l">>,
   psi    |-> <<"j", "i", "rho", "l">>,
   v      |-> <<"j", "rho", "l">>,
   phi    |-> <<"j", "rho", "l">>,
   mm_psi |-> <<"j", "i", "l">>,
   m_psi  |-> <<"j", "i", "rho", "l">>,
   mm_v   |-> <<"j", "l">>,
   m_v    |-> <<"j", "rho", "l">>,
   mm_phi |-> <<"j", "l">>,
   m_phi  |-> <<"j", "rho", "l">>,
   tl     |-> <<"l">>,
   alpha_0 |-> <<>>,
   alpha_1 |-> <<>>]

SchemaVars == DOMAIN variableindices

get_var_indices(var) == variableindices[var]

get_index_bound(index) == indexbound[index]

\* Schema.get_var_radix / make_radix_map: the bounds of the indices, in order
make_radix_map(idxs) == [k \in DOMAIN idxs |-> indexbound[idxs[k]]]

get_var_radix(var) == make_radix_map(variableindices[var])

\* ut.radix_cartesian_product: the list of every tuple below the radix map, in
\* lexicographic order with the last index varying fastest.
radix_cartesian_product(radix) ==
  [n \in 1..reduce_mult(radix) |->
     [k \in DOMAIN radix |->
        ((n - 1) \div reduce_mult(SubSeq(radix, k + 1, Len(radix)))) % radix[k]]]

\* Schema.indices_plain_to_dict: (i1, ..., iN) -> {index name -> value}
indices_plain_to_dict(var, plain) ==
  [n \in Range(variableindices[var]) |->
     plain[CHOOSE k \in DOMAIN variableindices[var] : variableindices[var][k] = n]]

\* Schema.indices_dict_to_plain: {index name -> value} -> (VARIABLE, i1, ..., iN),
\* the indices ordered as the schema declares them; fails on another key set.
indices_dict_to_plain(var, idx) ==
  IF Range(variableindices[var]) # DOMAIN idx THEN AssertionError
  ELSE <<var>> \o [k \in DOMAIN variableindices[var] |-> idx[variableindices[var][k]]]

\* Schema.radix_map_iter_var_dict: the index dicts of a variable, in that order
radix_map_iter_var_dict(var) ==
  [n \in DOMAIN radix_cartesian_product(get_var_radix(var)) |->
     indices_plain_to_dict(var, radix_cartesian_product(get_var_radix(var))[n])]

(***************************************************************************)
(* RowIndex.                                                               *)
(***************************************************************************)
\* RowIndex.indices: the bound of every index some row variable uses
row_indices == indexbound

\* RowIndex.__post_init__: radix_maps[v], the bounds of v's indices
radix_maps(var) == [k \in DOMAIN variableindices[var] |-> row_indices[variableindices[var][k]]]

\* the weights as __post_init__ first fills them, without the loop that
\* multiplies the bounds of the less significant digits in
radix_mult_vectors_all_ones(var) == [k \in DOMAIN variableindices[var] |-> 1]

\* RowIndex.__post_init__: radix_mult_vectors[v][k], the weight of digit k
radix_mult_vectors(var) ==
  [k \in DOMAIN variableindices[var] |->
     reduce_mult(SubSeq(radix_maps(var), k + 1, Len(radix_maps(var))))]

\* True when var_a appears before var_b
_check_precedence(var_a, var_b) == list_index(variables, var_a) < list_index(variables, var_b)

_to_mixed_radix_number(var, idx) == [k \in DOMAIN variableindices[var] |-> idx[variableindices[var][k]]]

get_row_len == SeqSum([k \in DOMAIN variables |-> reduce_mult(radix_maps(variables[k]))])

\* the term of get_pos's sum that variable `var` of the row contributes
map_var(var, variable, radix_number) ==
  IF var = variable
  THEN SeqSum([k \in DOMAIN radix_number |-> radix_number[k] * radix_mult_vectors(var)[k]])
  ELSE IF _check_precedence(var, variable) THEN 0
  ELSE reduce_mult(radix_maps(var))

\* the three asserts of RowIndex.get_pos: the variable exists, all its indices
\* and no others are given, and every index is within `0 <= i <= bound`
get_pos_asserts(variable, idx) ==
  /\ variable \in Range(variables)
  /\ DOMAIN idx = Range(variableindices[variable])
  /\ \A n \in DOMAIN idx : 0 <= idx[n] /\ idx[n] <= row_indices[n]

get_pos(variable, idx) ==
  IF variable \notin Range(variables) THEN AssertionError
  ELSE IF DOMAIN idx # Range(variableindices[variable]) THEN AssertionError
  ELSE IF ~ \A n \in DOMAIN idx : 0 <= idx[n] /\ idx[n] <= row_indices[n] THEN AssertionError
  ELSE SeqSum([k \in DOMAIN variables |->
                 map_var(variables[k], variable, _to_mixed_radix_number(variable, idx))])

(***************************************************************************)
(* Data interface.  A read either returns a value or raises.               *)
(***************************************************************************)
Returned(val) == [ok |-> TRUE, val |-> val]
Raised == [ok |-> FALSE, val |-> 0]

\* DictRamDataProvider.get_plain / PermissiveCsvBufferedDataProvider.get_plain
provider_get_plain(key) ==
  IF key \in DOMAIN provider THEN Returned(provider[key]) ELSE Raised

\* DataInterface.get_plain
DataInterface_get_plain(key) == provider_get_plain(key)

\* DataInterface.get
DataInterface_get(var, idx) ==
  IF Range(variableindices[var]) # DOMAIN idx THEN Raised
  ELSE provider_get_plain(indices_dict_to_plain(var, idx))

\* ZeroingDataInterface.get_plain that returns 0.0 whatever the store holds
ZeroingDataInterface_get_plain_always_zero(key) == 0

\* ZeroingDataInterface.get_plain: 0.0 instead of the AssertionError
ZeroingDataInterface_get_plain(key) ==
  IF DataInterface_get_plain(key).ok THEN DataInterface_get_plain(key).val ELSE 0

\* ZeroingDataInterface.get
ZeroingDataInterface_get(var, idx) ==
  IF DataInterface_get(var, idx).ok THEN DataInterface_get(var, idx).val ELSE 0

\* DictRamDataProvider.set_plain on the store `store`: self[k] = v
set_plain(store, key, value) ==
  [k \in DOMAIN store \cup {key} |-> IF k = key THEN value ELSE store[k]]

\* DataInterface.set(variable, value, **indices) on the store `store`
DataInterface_set(store, var, value, idx) ==
  set_plain(store, indices_dict_to_plain(var, idx), value)

(***************************************************************************)
(* LinsolvPlanner.                                                         *)
(***************************************************************************)
\* the row variables the planner builds its RowIndex from
PlannerVariables == <<"y", "x", "z", "g">>

_NEQ_VAR_ORDER == <<"x", "y", "g", "z">>
_NEQ_VAR_ORDER_RHS_swapped == <<"psi", "phi", "v">>

_NEQ_VAR_ORDER_RHS == <<"psi", "v", "phi">>

\* zip(a, b): as many pairs as the shorter list has elements
zip(a, b) == [k \in 1..(IF Len(a) < Len(b) THEN Len(a) ELSE Len(b)) |-> <<a[k], b[k]>>]

\* LinsolvPlanner.validate: the asserts on the schema
validate ==
  /\ get_index_bound("i") = get_index_bound("j")
  /\ get_var_indices("x") = <<"j", "i", "rho", "l">>
  /\ \A var \in {"x_eq", "y", "g", "z"} : get_var_indices(var) = <<"j", "rho", "l">>

\* the loop over i of __make_eq_lhs_rhs, from i on
RECURSIVE make_eq_x_loop(_, _, _, _, _)
make_eq_x_loop(vec, j, rho, l, i) ==
  IF i >= get_index_bound("j") THEN vec
  ELSE make_eq_x_loop(
         IF i # j
         THEN [vec EXCEPT ![get_pos("x", [j |-> i, i |-> j, rho |-> rho, l |-> l])] = -1,
                          ![get_pos("x", [j |-> j, i |-> i, rho |-> rho, l |-> l])] = 1]
         ELSE vec,
         j, rho, l, i + 1)

\* the row without the term of the amount stored in the previous interval
make_eq_lhs_no_prev(j, rho, l) ==
  make_eq_x_loop(
    [[p \in 0..(get_row_len - 1) |-> 0]
       EXCEPT ![get_pos("g", [j |-> j, rho |-> rho, l |-> l])] = 1,
              ![get_pos("y", [j |-> j, rho |-> rho, l |-> l])] = 1,
              ![get_pos("z", [j |-> j, rho |-> rho, l |-> l])] = 1],
    j, rho, l, 0)

\* LinsolvPlanner.__make_eq_lhs_rhs: the row of (j, rho, l)
make_eq_lhs(j, rho, l) ==
  LET vec == [[p \in 0..(get_row_len - 1) |-> 0]
                EXCEPT ![get_pos("g", [j |-> j, rho |-> rho, l |-> l])] = 1,
                       ![get_pos("y", [j |-> j, rho |-> rho, l |-> l])] = 1,
                       ![get_pos("z", [j |-> j, rho |-> rho, l |-> l])] = 1]
      vec_prev == IF l > 0
                  THEN [vec EXCEPT ![get_pos("y", [j |-> j, rho |-> rho, l |-> l - 1])] = -1]
                  ELSE vec
  IN  make_eq_x_loop(vec_prev, j, rho, l, 0)

make_eq_rhs_zero(j, rho, l) == 0

\* LinsolvPlanner.__make_eq_lhs_rhs: the right-hand side of (j, rho, l)
make_eq_rhs(j, rho, l) == ZeroingDataInterface_get("x_eq", [j |-> j, rho |-> rho, l |-> l])

\* LinsolvPlanner.__make_eq: one row and one right-hand side per index tuple of x_eq
make_eq ==
  LET its == radix_map_iter_var_dict("x_eq")
  IN  [lhs |-> [n \in DOMAIN its |-> make_eq_lhs(its[n]["j"], its[n]["rho"], its[n]["l"])],
       rhs |-> [n \in DOMAIN its |-> make_eq_rhs(its[n]["j"], its[n]["rho"], its[n]["l"])]]

\* the inner loop of __init_bnd_matrix for the pair (var, bnd_var), tuples 1..n
RECURSIVE init_bnd_var(_, _, _, _)
init_bnd_var(b, var, bnd_var, n) ==
  IF n = 0 THEN b
  ELSE LET indices == radix_cartesian_product(get_var_radix(var))[n]
           pos == get_pos(var, indices_plain_to_dict(var, indices))
           upper_bound == ZeroingDataInterface_get_plain(<<bnd_var>> \o indices)
       IN  [init_bnd_var(b, var, bnd_var, n - 1)
              EXCEPT ![pos] = [lower |-> @.lower, upper |-> upper_bound, inf |-> FALSE]]

\* the outer loop of __init_bnd_matrix, pairs 1..k of zip(_NEQ_VAR_ORDER, _NEQ_VAR_ORDER_RHS)
RECURSIVE init_bnd_pairs(_, _)
init_bnd_pairs(b, k) ==
  IF k = 0 THEN b
  ELSE LET pair == zip(_NEQ_VAR_ORDER, _NEQ_VAR_ORDER_RHS)[k]
       IN  init_bnd_var(init_bnd_pairs(b, k - 1), pair[1], pair[2],
                        reduce_mult(get_var_radix(pair[1])))

\* __init_bnd_matrix that starts from [0, 0] everywhere instead of [0, inf]
init_bnd_matrix_zero ==
  init_bnd_pairs([p \in 0..(get_row_len - 1) |-> [lower |-> 0, upper |-> 0, inf |-> FALSE]],
                 Len(zip(_NEQ_VAR_ORDER, _NEQ_VAR_ORDER_RHS)))

\* LinsolvPlanner.__init_bnd_matrix: [0, inf] everywhere, then the capacities
init_bnd_matrix ==
  init_bnd_pairs([p \in 0..(get_row_len - 1) |-> [lower |-> 0, upper |-> 0, inf |-> TRUE]],
                 Len(zip(_NEQ_VAR_ORDER, _NEQ_VAR_ORDER_RHS)))

\* the two asserts of __init_obj: neither weight is close to 0
init_obj_asserts ==
  /\ ZeroingDataInterface_get_plain(<<"alpha_0">>) # 0
  /\ ZeroingDataInterface_get_plain(<<"alpha_1">>) # 0

\* the loop of __init_obj over the tuples 1..n of (j, rho, l)
RECURSIVE init_obj_loop(_, _)
init_obj_loop(stub, n) ==
  IF n = 0 THEN stub
  ELSE LET t == radix_cartesian_product(make_radix_map(<<"j", "rho", "l">>))[n]
           kw == [j |-> t[1], rho |-> t[2], l |-> t[3]]
       IN  [init_obj_loop(stub, n - 1)
              EXCEPT ![get_pos("g", kw)] = - ZeroingDataInterface_get_plain(<<"alpha_0">>),
                     ![get_pos("z", kw)] = ZeroingDataInterface_get_plain(<<"alpha_1">>)]

\* the objective without the sign change that turns the maximisation of the
\* processed amount into a minimisation
init_obj_unsigned ==
  LET a == ZeroingDataInterface_get_plain(<<"alpha_0">>)
      signed == init_obj_loop([p \in 0..(get_row_len - 1) |-> 0],
                              reduce_mult(make_radix_map(<<"j", "rho", "l">>)))
  IN  [p \in DOMAIN signed |-> IF signed[p] = -a THEN a ELSE signed[p]]

\* LinsolvPlanner.__init_obj
init_obj ==
  init_obj_loop([p \in 0..(get_row_len - 1) |-> 0],
                reduce_mult(make_radix_map(<<"j", "rho", "l">>)))

(***************************************************************************)
(* scipy.optimize.linprog(c, bounds, A_eq, b_eq): status 0 and a minimiser *)
(* of c.x among the points that satisfy A_eq x = b_eq within the bounds,   *)
(* status 2 when there is no such point.  The constraint matrix is the     *)
(* incidence matrix of a network, so with integer data an optimum is       *)
(* attained at integer points; the model searches those.                   *)
(***************************************************************************)
\* no entry of a feasible point exceeds the sum of the data
SolMax == MaxKeys * MaxVal

RECURSIVE Dot(_, _, _)
Dot(a, b, n) == IF n = 0 THEN 0 ELSE a[n - 1] * b[n - 1] + Dot(a, b, n - 1)

\* the points within `bounds`, as lists of the first n entries
RECURSIVE BoxPoints(_, _)
BoxPoints(bounds, n) ==
  IF n = 0 THEN {<<>>}
  ELSE {Append(pt, val) :
          pt \in BoxPoints(bounds, n - 1),
          val \in bounds[n - 1].lower..(IF bounds[n - 1].inf THEN SolMax ELSE bounds[n - 1].upper)}

linprog_feasible(c, bounds, A_eq, b_eq) ==
  LET n == Cardinality(DOMAIN c)
      pts == {[p \in 0..(n - 1) |-> pt[p + 1]] : pt \in BoxPoints(bounds, n)}
  IN  {x \in pts : \A r \in DOMAIN A_eq : Dot(A_eq[r], x, n) = b_eq[r]}

\* scipy.optimize.linprog that returns any feasible point, optimal or not
linprog_any_feasible(c, bounds, A_eq, b_eq) ==
  LET feasible == linprog_feasible(c, bounds, A_eq, b_eq)
  IN  IF feasible = {} THEN {[status |-> 2, x |-> <<>>]}
      ELSE {[status |-> 0, x |-> x] : x \in feasible}

linprog(c, bounds, A_eq, b_eq) ==
  LET n == Cardinality(DOMAIN c)
      feasible == linprog_feasible(c, bounds, A_eq, b_eq)
  IN  IF feasible = {} THEN {[status |-> 2, x |-> <<>>]}
      ELSE {[status |-> 0, x |-> x] :
              x \in {x \in feasible : \A other \in feasible : Dot(c, x, n) <= Dot(c, other, n)}}

\* the inner loop of solve, reading the solution at the position within the
\* variable instead of at get_pos
RECURSIVE register_var_local_pos(_, _, _, _)
register_var_local_pos(store, variable, x, n) ==
  IF n = 0 THEN store
  ELSE DataInterface_set(register_var_local_pos(store, variable, x, n - 1),
                         variable, x[n - 1], radix_map_iter_var_dict(variable)[n])

\* the inner loop of solve over the index dicts 1..n of `variable`
RECURSIVE register_var(_, _, _, _)
register_var(store, variable, x, n) ==
  IF n = 0 THEN store
  ELSE LET idx == radix_map_iter_var_dict(variable)[n]
       IN  DataInterface_set(register_var(store, variable, x, n - 1),
                             variable, x[get_pos(variable, idx)], idx)

\* the outer loop of solve over the row variables 1..k
RECURSIVE register_solution(_, _, _)
register_solution(store, x, k) ==
  IF k = 0 THEN store
  ELSE register_var(register_solution(store, x, k - 1), variables[k], x,
                    reduce_mult(get_var_radix(variables[k])))

(***************************************************************************)
(* VirtHelper: the simulation's reading of the schema and the data store.  *)
(***************************************************************************)
\* VirtHelper.tl: the duration of interval n
tl(n) == ZeroingDataInterface_get("tl", [l |-> n])

\* VirtHelper.__init_duration: the list __tl_bounds of the times the first n
\* intervals end at
RECURSIVE __init_duration(_)
__init_duration(n) ==
  IF n = 0 THEN <<>>
  ELSE LET bounds == __init_duration(n - 1)
       IN  Append(bounds, (IF n = 1 THEN 0 ELSE bounds[n - 1]) + tl(n - 1))

\* VirtHelper.l_to_t_bound
l_to_t_bound(n) == tl_bounds[n + 1]

\* VirtHelper.duration
duration == tl_bounds[Len(tl_bounds)]

\* what a Python function returns when it falls off its end
None == "None"

\* VirtHelper.t_to_l with `t <= t_bound` in place of `t < t_bound`
t_to_l_inclusive(time) ==
  IF \E n \in DOMAIN tl_bounds : time <= tl_bounds[n]
  THEN (CHOOSE n \in DOMAIN tl_bounds :
          time <= tl_bounds[n] /\ \A m \in 1..(n - 1) : ~ (time <= tl_bounds[m])) - 1
  ELSE None

\* VirtHelper.t_to_l: the first interval that ends after `time`
t_to_l(time) ==
  IF \E n \in DOMAIN tl_bounds : time < tl_bounds[n]
  THEN (CHOOSE n \in DOMAIN tl_bounds :
          time < tl_bounds[n] /\ \A m \in 1..(n - 1) : ~ (time < tl_bounds[m])) - 1
  ELSE None

\* VirtHelper.indices_iter_plain: the index tuples of the names, in order
indices_iter_plain(index_names) == radix_cartesian_product(make_radix_map(index_names))

\* VirtHelper.indices_container: the index names of an input container
indices_container == <<"j", "rho", "l">>

\* VirtHelper.indices_planned_decompose: the index dict of a plain tuple
indices_planned_decompose(var, plain) == indices_plain_to_dict(var, plain)

\* VirtHelper.indices_transfer_is_connected
indices_transfer_is_connected(indices) ==
  LET d == indices_planned_decompose("x", indices)
  IN  IF d["i"] = d["j"] THEN FALSE
      ELSE /\ ZeroingDataInterface_get("mm_psi", [j |-> d["j"], i |-> d["i"], l |-> d["l"]]) > 0
           /\ ZeroingDataInterface_get("m_psi", d) > 0

\* VirtHelper.intensity_upper_generate: planned / tl, per unit of time (tl is
\* in ticks; the planned amounts of the model are multiples of tl)
intensity_upper_generate(indices) ==
  (ZeroingDataInterface_get_plain(<<"x_eq">> \o indices) * TimeScale)
    \div tl(indices_planned_decompose("x_eq", indices)["l"])

(***************************************************************************)
(* Simulation.__post_init__: the containers and the ops.                   *)
(***************************************************************************)
\* Simulation._init_make_containers
_init_make_containers ==
  [c \in Range(indices_iter_plain(indices_container)) |-> 0]

\* Simulation._init_make_containers_processed
_init_make_containers_processed ==
  [c \in Range(indices_iter_plain(<<"j", "rho">>)) |-> 0]

\* the TransferOp Simulation._init_make_transfer_ops creates for `indices`
TransferOp(indices) ==
  LET d == indices_planned_decompose("x", indices)
  IN  [val_l |-> d["l"],
       amount_planned |-> ZeroingDataInterface_get_plain(<<"x">> \o indices),
       proc_intensity_fraction |-> ZeroingDataInterface_get_plain(<<"m_psi">> \o indices),
       proc_intensity_upper |->
         ZeroingDataInterface_get("mm_psi", [j |-> d["j"], i |-> d["i"], l |-> d["l"]]),
       proc_intensity_lower |-> 0,
       proc_noise_type |-> "gauss",
       amount_processed |-> 0,
       container_input |-> <<d["j"], d["rho"], d["l"]>>,
       container_output |-> <<d["i"], d["rho"], d["l"]>>,
       proc_step |-> 0]

_init_make_transfer_ops ==
  [indices \in {e \in Range(indices_iter_plain(get_var_indices("x"))) :
                  indices_transfer_is_connected(e)} |-> TransferOp(indices)]

\* the StoreOp Simulation._init_make_store_ops creates for `indices`
StoreOp(indices) ==
  LET d == indices_planned_decompose("y", indices)
  IN  [val_l |-> d["l"],
       amount_planned |-> ZeroingDataInterface_get_plain(<<"y">> \o indices),
       proc_intensity_fraction |-> ZeroingDataInterface_get_plain(<<"m_v">> \o indices),
       proc_intensity_upper |-> ZeroingDataInterface_get("mm_v", [j |-> d["j"], l |-> d["l"]]),
       proc_intensity_lower |-> 0 - ZeroingDataInterface_get("mm_v", [j |-> d["j"], l |-> d["l"]]),
       proc_noise_type |-> None,
       amount_processed |-> 0,
       container_input |-> <<d["j"], d["rho"], d["l"]>>,
       container_processed |-> <<d["j"], d["rho"]>>,
       amount_proc |-> 0]

_init_make_store_ops ==
  [indices \in Range(indices_iter_plain(get_var_indices("y"))) |-> StoreOp(indices)]

\* the ProcessOp Simulation._init_make_process_ops creates for `indices`
ProcessOp(indices) ==
  LET d == indices_planned_decompose("g", indices)
  IN  [val_l |-> d["l"],
       amount_planned |-> ZeroingDataInterface_get_plain(<<"g">> \o indices),
       proc_intensity_fraction |-> ZeroingDataInterface_get("m_phi", d),
       proc_intensity_upper |-> ZeroingDataInterface_get("mm_phi", [j |-> d["j"], l |-> d["l"]]),
       proc_intensity_lower |-> 0,
       proc_noise_type |-> None,
       amount_processed |-> 0,
       container_input |-> <<d["j"], d["rho"], d["l"]>>]

_init_make_process_ops ==
  [indices \in Range(indices_iter_plain(get_var_indices("g"))) |-> ProcessOp(indices)]

\* the DropOp Simulation._init_make_drop_ops creates for `indices`; its
\* intensity (infinite) and fraction (1.0) are not read by DropOp.step
DropOp(indices) ==
  LET d == indices_planned_decompose("z", indices)
  IN  [val_l |-> d["l"],
       amount_planned |-> ZeroingDataInterface_get_plain(<<"z">> \o indices),
       amount_processed |-> 0,
       container_input |-> <<d["j"], d["rho"], d["l"]>>]

_init_make_drop_ops ==
  [indices \in Range(indices_iter_plain(get_var_indices("z"))) |-> DropOp(indices)]

\* the GenerateOp Simulation._init_generate_ops creates for `indices`
GenerateOp(indices) ==
  LET d == indices_planned_decompose("x_eq", indices)
  IN  [val_l |-> d["l"],
       amount_planned |-> ZeroingDataInterface_get_plain(<<"x_eq">> \o indices),
       proc_intensity_fraction |-> 1,
       proc_intensity_upper |-> intensity_upper_generate(indices),
       proc_intensity_lower |-> 0,
       proc_noise_type |-> None,
       amount_processed |-> 0,
       container_input |-> indices]

_init_generate_ops ==
  [indices \in Range(indices_iter_plain(get_var_indices("x_eq"))) |-> GenerateOp(indices)]

(***************************************************************************)
(* The ops: what a step computes.                                          *)
(***************************************************************************)
\* ut.clamp: x limited to [lo, hi]
clamp(x, lo, hi) ==
  LET m == IF x < hi THEN x ELSE hi
  IN  IF m < lo THEN lo ELSE m

\* random.gauss(0, sigma): the samples it may draw; 0 when sigma is 0
gauss(sigma) == IF sigma = 0 THEN {0} ELSE (0 - MaxNoise)..MaxNoise

\* Operation.noise that does not read _SIM_USE_NOISE
noise_always(op) ==
  IF op.proc_noise_type = None THEN {0}
  ELSE IF op.amount_planned - op.amount_processed > 0 THEN gauss(op.proc_intensity_upper)
  ELSE gauss(op.proc_intensity_lower)

\* Operation.noise: the samples it may return
noise(op) ==
  IF ~ use_noise THEN {0}
  ELSE IF op.proc_noise_type = None THEN {0}
  ELSE IF op.amount_planned - op.amount_processed > 0 THEN gauss(op.proc_intensity_upper)
  ELSE gauss(op.proc_intensity_lower)

\* Operation.amount_proc_available without the clamp to what the stash and the
\* input container hold
amount_proc_available_unclamped(op, n, amount_stash, amount_input) ==
  LET diff_planned == op.amount_planned - op.amount_processed
      amount_step_lower ==
        IF op.proc_intensity_lower = 0 THEN 0
        ELSE ((op.proc_intensity_lower * op.proc_intensity_fraction + n) * sim_global.dt)
               \div TimeScale
      amount_step_upper ==
        ((op.proc_intensity_upper * op.proc_intensity_fraction + n) * sim_global.dt)
          \div TimeScale
  IN  clamp(diff_planned, amount_step_lower, amount_step_upper)

\* Operation.amount_proc_available for the noise sample n, amount_stash() and
\* amount_input(); dt is in ticks, the intensities are per unit of time
amount_proc_available(op, n, amount_stash, amount_input) ==
  LET diff_planned == op.amount_planned - op.amount_processed
      amount_step_lower ==
        IF op.proc_intensity_lower = 0 THEN 0
        ELSE ((op.proc_intensity_lower * op.proc_intensity_fraction + n) * sim_global.dt)
               \div TimeScale
      amount_step_upper ==
        ((op.proc_intensity_upper * op.proc_intensity_fraction + n) * sim_global.dt)
          \div TimeScale
  IN  clamp(clamp(diff_planned, amount_step_lower, amount_step_upper),
            0 - amount_stash, amount_input)

\* an is_finished that waits for the time to exceed the duration
is_finished_strict == sim_global.t > duration

\* SimGlobal.is_finished
is_finished == sim_global.t >= duration

\* Operation.is_current_l
is_current_l(op) == sim_global.l = op.val_l

\* dict.values() of an op dict, as the calls [kind, idx] in insertion order
values(kind, var, ops) ==
  LET sel == SelectSeq(indices_iter_plain(get_var_indices(var)), LAMBDA e : e \in DOMAIN ops)
  IN  [k \in DOMAIN sel |-> [kind |-> kind, idx |-> sel[k]]]

\* the op a call [kind, idx] is made on
op_of(e) ==
  CASE e.kind = "generate" -> generate_ops[e.idx]
    [] e.kind = "process" -> process_ops[e.idx]
    [] e.kind = "transfer" -> transfer_ops[e.idx]
    [] e.kind = "store" -> store_ops[e.idx]
    [] e.kind = "drop" -> drop_ops[e.idx]

\* Simulation.payload_ops_shuffled, before the shuffle
payload_ops ==
  values("process", "g", process_ops) \o values("transfer", "x", transfer_ops)
    \o values("store", "y", store_ops)

\* Simulation.teardown_ops
teardown_ops == values("transfer", "x", transfer_ops) \o values("store", "y", store_ops)

\* the list a loop of Simulation.step iterates
loop_ops(loop) ==
  CASE loop = "generate" -> values("generate", "x_eq", generate_ops)
    [] loop = "payload" -> payload_ops
    [] loop = "teardown" -> teardown_ops
    [] loop = "drop" -> values("drop", "z", drop_ops)
    [] OTHER -> <<>>

\* the loops of Simulation.step in a wrong order: drops before teardowns
next_loop_drop_first(loop) ==
  CASE loop = "generate" -> "payload"
    [] loop = "payload" -> "drop"
    [] loop = "drop" -> "teardown"
    [] loop = "teardown" -> "t_inc"

\* Simulation.step: the loop that follows `loop`
next_loop(loop) ==
  CASE loop = "generate" -> "payload"
    [] loop = "payload" -> "teardown"
    [] loop = "teardown" -> "drop"
    [] loop = "drop" -> "t_inc"

\* the loop body's `if op.is_current_l()`: the ops of a list that are called
current(list) == SelectSeq(list, LAMBDA e : is_current_l(op_of(e)))

\* a store op that keeps its own processed amount when it steps
amount_processed_own(op) == op.amount_processed

\* StoreOp.step, first statement: the processed amount the op takes over from
\* its processed-memory container
amount_processed_read(op) == containers_processed[op.container_processed]

\* a list without its k-th element
Remove(list, k) == SubSeq(list, 1, k - 1) \o SubSeq(list, k + 1, Len(list))

\* the positions random.shuffle may have put first among the remaining ops
shuffled_first(list) == IF shuffle_ops THEN DOMAIN list ELSE DOMAIN list \cap {1}

\* VirtHelper.weight_processed: the read of alpha_0; the zeroing interface
\* raises no KeyError, so the `except` branch is never taken
weight_processed == ZeroingDataInterface_get("alpha_0", <<>>)

\* VirtHelper.weight_dropped
weight_dropped == ZeroingDataInterface_get("alpha_1", <<>>)

\* the loop `for op in ops.values(): sum += op.amount_processed` over the
\* first n of the calls `list` on the ops `ops`
RECURSIVE sum_amount_processed(_, _, _)
sum_amount_processed(list, ops, n) ==
  IF n = 0 THEN 0
  ELSE sum_amount_processed(list, ops, n - 1) + ops[list[n].idx].amount_processed

\* Simulation.quality with the store ops summed into sum_processed as well
quality_with_store ==
  LET alpha_g == weight_processed
      alpha_z == weight_dropped
      sum_processed ==
        sum_amount_processed(values("process", "g", process_ops), process_ops, Len(values("process", "g", process_ops)))
          + sum_amount_processed(values("store", "y", store_ops), store_ops, Len(values("store", "y", store_ops)))
      sum_dropped ==
        sum_amount_processed(values("drop", "z", drop_ops), drop_ops, Len(values("drop", "z", drop_ops)))
  IN  IF alpha_g + alpha_z # 1 THEN Raised
      ELSE Returned(alpha_g * sum_processed - alpha_z * sum_dropped)

\* Simulation.quality: AssertionError unless the weights sum to 1
quality ==
  LET alpha_g == weight_processed
      alpha_z == weight_dropped
      sum_processed ==
        sum_amount_processed(values("process", "g", process_ops), process_ops, Len(values("process", "g", process_ops)))
      sum_dropped ==
        sum_amount_processed(values("drop", "z", drop_ops), drop_ops, Len(values("drop", "z", drop_ops)))
  IN  IF alpha_g + alpha_z # 1 THEN Raised
      ELSE Returned(alpha_g * sum_processed - alpha_z * sum_dropped)

\* what an observer reads off the simulation between two steps: the amount of
\* every container, the processed amount of every op, and Simulation.quality()
snapshot ==
  [containers |-> containers,
   containers_processed |-> containers_processed,
   generate_ops |-> [idx \in DOMAIN generate_ops |-> generate_ops[idx].amount_processed],
   process_ops |-> [idx \in DOMAIN process_ops |-> process_ops[idx].amount_processed],
   transfer_ops |-> [idx \in DOMAIN transfer_ops |-> transfer_ops[idx].amount_processed],
   store_ops |-> [idx \in DOMAIN store_ops |-> store_ops[idx].amount_processed],
   drop_ops |-> [idx \in DOMAIN drop_ops |-> drop_ops[idx].amount_processed],
   quality |-> quality]

lpVars == <<provider, pc, eq_lhs, eq_rhs, bnd, obj, solution>>

simVars == <<use_noise, shuffle_ops, tl_bounds, sim_global, containers, containers_processed, transfer_ops,
             store_ops, process_ops, drop_ops, generate_ops, step_pc, todo, done, trace>>

vars == <<indexbound, variables, ret, provider, pc, eq_lhs, eq_rhs, bnd, obj, solution,
          use_noise, shuffle_ops, tl_bounds, sim_global, containers, containers_processed,
          transfer_ops, store_ops, process_ops, drop_ops, generate_ops, step_pc, todo, done, trace,
          csv_file, csv_provider, virt_opt, best_performer_config, opt_hist, population>>

optVars == <<csv_file, csv_provider, virt_opt, best_performer_config, opt_hist, population>>

\* no VirtOpt has been constructed
NoOrchestration ==
  /\ csv_file = [rows |-> {}, writes |-> 0]
  /\ csv_provider = <<>>
  /\ virt_opt = [pc |-> "none"]
  /\ best_performer_config = <<>>
  /\ opt_hist = <<>>
  /\ population = <<>>

\* no simulation has been constructed
NoSimulation ==
  /\ use_noise = FALSE
  /\ shuffle_ops = FALSE
  /\ tl_bounds = <<>>
  /\ sim_global = [t |-> 0, l |-> 0, dt |-> TimeScale, new_l |-> FALSE]
  /\ containers = <<>>
  /\ containers_processed = <<>>
  /\ transfer_ops = <<>>
  /\ store_ops = <<>>
  /\ process_ops = <<>>
  /\ drop_ops = <<>>
  /\ generate_ops = <<>>
  /\ step_pc = "none"
  /\ todo = <<>>
  /\ done = {}
  /\ trace = [on |-> FALSE]

(***************************************************************************)
(* SpecRow: a RowIndex over a schema, and calls of its API.                *)
(***************************************************************************)
\* the variables a row of SpecRow is made of
RowVarPool == {"x", "y", "tl"}

\* the keyword arguments a caller may pass to get_pos
IndexArgs == UNION {[Range(variableindices[w]) -> 0..MaxBound] : w \in RowVarPool}

InitRow ==
  /\ indexbound \in [IndexNames -> 1..MaxBound]
  /\ variables \in NoRepSeqs(RowVarPool, MaxVars)
  /\ ret = [op |-> "none"]
  /\ provider = <<>>
  /\ pc = "none"
  /\ eq_lhs = <<>>
  /\ eq_rhs = <<>>
  /\ bnd = <<>>
  /\ obj = <<>>
  /\ solution = [status |-> "none"]
  /\ NoSimulation
  /\ NoOrchestration

\* A call reads the RowIndex and changes nothing of it, so the result of a call
\* does not depend on the calls before it: one call per behaviour covers all.
CallGetRowLen ==
  /\ ret.op = "none"
  /\ ret' = [op |-> "get_row_len", val |-> get_row_len]
  /\ UNCHANGED <<indexbound, variables>>
  /\ UNCHANGED lpVars
  /\ UNCHANGED simVars
  /\ UNCHANGED optVars

CallGetPos ==
  \E variable \in RowVarPool, idx \in IndexArgs :
    /\ ret.op = "none"
    /\ ret' = [op |-> "get_pos", variable |-> variable, idx |-> idx, val |-> get_pos(variable, idx)]
    /\ UNCHANGED <<indexbound, variables>>
    /\ UNCHANGED lpVars
  /\ UNCHANGED simVars
  /\ UNCHANGED optVars

NextRow == CallGetRowLen \/ CallGetPos

SpecRow == InitRow /\ [][NextRow]_vars

(***************************************************************************)
(* SpecLP: a planner is constructed on a schema and a data store, and      *)
(* solve() is called on it.                                                *)
(***************************************************************************)
\* the schemas of SpecLP: up to two (j, rho, l) cells
LpSchemas ==
  {b \in [IndexNames -> 1..MaxBound] : b["j"] * b["rho"] * b["l"] <= 2 /\ b["i"] <= 2}

\* the in-range keys of a variable under the bounds b
KeysOf(var, b) ==
  {<<var>> \o t : t \in {t \in [DOMAIN variableindices[var] -> 0..(MaxBound - 1)] :
                            \A k \in DOMAIN t : t[k] < b[variableindices[var][k]]}}

DataKeys(b) == KeysOf("x_eq", b) \cup KeysOf("psi", b) \cup KeysOf("v", b) \cup KeysOf("phi", b)

\* the data files of SpecLP: at most MaxKeys rows of arrivals (which a faulty
\* file may give as negative) and capacities, and the two weights or not
DataFiles(b) ==
  {f \in UNION {[K -> (-1)..MaxVal] : K \in {K \in SUBSET DataKeys(b) : Cardinality(K) <= MaxKeys}} :
     \A key \in DOMAIN f : f[key] # 0 /\ (f[key] < 0 => key[1] = "x_eq")}

WeightFiles ==
  {f \in UNION {[K -> 0..MaxAlpha] : K \in SUBSET {<<"alpha_0">>, <<"alpha_1">>}} : TRUE}

InitLP ==
  /\ indexbound \in LpSchemas
  /\ \E f \in DataFiles(indexbound), w \in WeightFiles :
       provider = [key \in DOMAIN f \cup DOMAIN w |-> IF key \in DOMAIN f THEN f[key] ELSE w[key]]
  /\ variables = PlannerVariables
  /\ ret = [op |-> "none"]
  /\ pc = "new"
  /\ eq_lhs = <<>>
  /\ eq_rhs = <<>>
  /\ bnd = <<>>
  /\ obj = <<>>
  /\ solution = [status |-> "none"]
  /\ NoSimulation
  /\ NoOrchestration

\* LinsolvPlanner.__post_init__; the RowIndex it makes first has the literal
\* variable list PlannerVariables, which `variables` holds from the start.
Construct ==
  /\ pc = "new"
  /\ UNCHANGED <<indexbound, variables, provider, ret, solution>>
  /\ UNCHANGED simVars
  /\ UNCHANGED optVars
  /\ IF validate /\ init_obj_asserts
     THEN /\ eq_lhs' = make_eq.lhs
          /\ eq_rhs' = make_eq.rhs
          /\ bnd' = init_bnd_matrix
          /\ obj' = init_obj
          /\ pc' = "constructed"
     ELSE /\ UNCHANGED <<eq_lhs, eq_rhs, bnd, obj>>
          /\ pc' = "construct_failed"

\* LinsolvPlanner.solve
Solve ==
  /\ pc \in {"constructed", "solved"}
  /\ \E res \in linprog(obj, bnd, eq_lhs, eq_rhs) :
       /\ solution' = res
       /\ IF res.status = 0
          THEN /\ provider' = register_solution(provider, res.x, Len(variables))
               /\ pc' = "solved"
          ELSE /\ UNCHANGED provider
               /\ pc' = "solve_failed"
  /\ UNCHANGED <<indexbound, variables, ret, eq_lhs, eq_rhs, bnd, obj>>
  /\ UNCHANGED simVars
  /\ UNCHANGED optVars

NextLP == Construct \/ Solve

SpecLP == InitLP /\ [][NextLP]_vars

(***************************************************************************)
(* SpecSim: a Simulation is constructed on a data store and run() is       *)
(* called on it.                                                           *)
(***************************************************************************)
\* the schema of SpecSim
SimSchema == [j |-> NJ, i |-> NJ, rho |-> NRho, l |-> NL]

\* the rows of the data file a simulation is given: durations of 1..MaxTl
\* ticks; arrivals at node 0 at MaxRate per tick; a processing plan and
\* capacity at every node; a storage plan for interval 0 or for every
\* interval; a channel 0 -> 1 of capacity psi with a transfer plan
SimRows(p) ==
  {<<<<"tl", n>>, p.tl[n]>> : n \in 0..(NL - 1)}
  \cup {<<<<"x_eq", 0, r, n>>, MaxRate * p.tl[n]>> : r \in 0..(NRho - 1), n \in 0..(NL - 1)}
  \cup {<<<<"g", k, r, n>>, MaxRate>> : k \in 0..(NJ - 1), r \in 0..(NRho - 1), n \in 0..(NL - 1)}
  \cup {<<<<"mm_phi", k, n>>, MaxRate>> : k \in 0..(NJ - 1), n \in 0..(NL - 1)}
  \cup {<<<<"m_phi", k, r, n>>, 1>> : k \in 0..(NJ - 1), r \in 0..(NRho - 1), n \in 0..(NL - 1)}
  \cup {<<<<"y", k, r, n>>, TimeScale * MaxRate>> :
          k \in 0..(NJ - 1), r \in 0..(NRho - 1), n \in {m \in 0..(NL - 1) : m = 0 \/ p.keep}}
  \cup {<<<<"mm_v", k, n>>, TimeScale * MaxRate>> : k \in 0..(NJ - 1), n \in 0..(NL - 1)}
  \cup {<<<<"m_v", k, r, n>>, 1>> : k \in 0..(NJ - 1), r \in 0..(NRho - 1), n \in 0..(NL - 1)}
  \cup {<<<<"x", 0, 1, r, n>>, TimeScale * MaxRate>> : r \in 0..(NRho - 1), n \in 0..(NL - 1)}
  \cup {<<<<"mm_psi", 0, 1, n>>, p.psi>> : n \in {m \in 0..(NL - 1) : p.psi > 0}}
  \cup {<<<<"m_psi", 0, 1, r, n>>, 1>> : r \in 0..(NRho - 1), n \in 0..(NL - 1)}

\* the store loaded from such a file
SimStore(p) ==
  [key \in {row[1] : row \in SimRows(p)} |-> (CHOOSE row \in SimRows(p) : row[1] = key)[2]]

SimStores ==
  {SimStore(p) : p \in [tl : [0..(NL - 1) -> 1..MaxTl], keep : BOOLEAN, psi : 0..MaxRate]}

InitSim ==
  /\ indexbound = SimSchema
  /\ variables = <<>>
  /\ ret = [op |-> "none"]
  /\ provider \in SimStores
  /\ pc = "none"
  /\ eq_lhs = <<>>
  /\ eq_rhs = <<>>
  /\ bnd = <<>>
  /\ obj = <<>>
  /\ solution = [status |-> "none"]
  /\ use_noise \in BOOLEAN
  /\ shuffle_ops \in BOOLEAN
  /\ tl_bounds = __init_duration(get_index_bound("l"))
  /\ sim_global = [t |-> 0, l |-> 0, dt |-> TimeScale, new_l |-> FALSE]
  /\ containers = _init_make_containers
  /\ containers_processed = _init_make_containers_processed
  /\ transfer_ops = _init_make_transfer_ops
  /\ store_ops = _init_make_store_ops
  /\ process_ops = _init_make_process_ops
  /\ drop_ops = _init_make_drop_ops
  /\ generate_ops = _init_generate_ops
  /\ step_pc = "run"
  /\ todo = <<>>
  /\ done = {}
  /\ trace = [on |-> FALSE]
  /\ NoOrchestration

runData == <<indexbound, variables, ret, provider, pc, eq_lhs, eq_rhs, bnd, obj, solution,
             use_noise, shuffle_ops, tl_bounds,
             csv_file, csv_provider, virt_opt, best_performer_config, opt_hist, population>>

simData == <<runData, trace>>

\* Simulation.run: `while not is_finished()` enters Simulation.step
StepEnter ==
  /\ step_pc = "run"
  /\ ~ is_finished
  /\ step_pc' = "generate"
  /\ todo' = current(loop_ops("generate"))
  /\ UNCHANGED <<sim_global, containers, containers_processed, transfer_ops, store_ops,
                 process_ops, drop_ops, generate_ops, done>>
  /\ UNCHANGED simData

\* a loop of Simulation.step is through: the next loop, or t_inc, begins
LoopEnd ==
  /\ step_pc \in {"generate", "payload", "teardown", "drop"}
  /\ todo = <<>>
  /\ step_pc' = next_loop(step_pc)
  /\ todo' = current(loop_ops(next_loop(step_pc)))
  /\ UNCHANGED <<sim_global, containers, containers_processed, transfer_ops, store_ops,
                 process_ops, drop_ops, generate_ops, done>>
  /\ UNCHANGED simData

\* GenerateOp.step of the next generate op
GenerateOpStep ==
  /\ step_pc = "generate"
  /\ todo # <<>>
  /\ LET idx == Head(todo).idx
         op == generate_ops[idx]
         diff == clamp(op.proc_intensity_upper, 0, op.amount_planned - op.amount_processed)
     IN  /\ containers' = [containers EXCEPT ![op.container_input] = diff]
         /\ generate_ops' = [generate_ops EXCEPT ![idx].amount_processed = @ + diff]
         /\ done' = done \cup {<<"step", "generate", idx>>}
  /\ todo' = Tail(todo)
  /\ UNCHANGED <<sim_global, containers_processed, transfer_ops, store_ops, process_ops,
                 drop_ops, step_pc>>
  /\ UNCHANGED simData

\* ProcessOp.step of the payload op the shuffle put next
ProcessOpStep ==
  /\ step_pc = "payload"
  /\ \E k \in shuffled_first(todo) :
       /\ todo[k].kind = "process"
       /\ LET idx == todo[k].idx
              op == process_ops[idx]
          IN  \E n \in noise(op) :
                LET amount_proc == amount_proc_available(op, n, 0, containers[op.container_input])
                IN  /\ containers' = [containers EXCEPT ![op.container_input] = @ - amount_proc]
                    /\ process_ops' = [process_ops EXCEPT ![idx].amount_processed = @ + amount_proc]
                    /\ done' = done \cup {<<"step", "process", idx>>}
       /\ todo' = Remove(todo, k)
  /\ UNCHANGED <<sim_global, containers_processed, transfer_ops, store_ops, drop_ops,
                 generate_ops, step_pc>>
  /\ UNCHANGED simData

\* a TransferOp.step that puts the amount into the receiver's container at once
TransferOpStepDelivering ==
  /\ step_pc = "payload"
  /\ \E k \in shuffled_first(todo) :
       /\ todo[k].kind = "transfer"
       /\ LET idx == todo[k].idx
              op == transfer_ops[idx]
          IN  \E n \in noise(op) :
                LET amount_proc == amount_proc_available(op, n, 0, containers[op.container_input])
                IN  /\ containers' = [containers EXCEPT ![op.container_input] = @ - amount_proc,
                                                        ![op.container_output] = @ + amount_proc]
                    /\ transfer_ops' = [transfer_ops EXCEPT ![idx].proc_step = amount_proc]
                    /\ done' = done \cup {<<"step", "transfer", idx>>}
       /\ todo' = Remove(todo, k)
  /\ UNCHANGED <<sim_global, containers_processed, store_ops, process_ops, drop_ops,
                 generate_ops, step_pc>>
  /\ UNCHANGED simData

\* TransferOp.step of the payload op the shuffle put next
TransferOpStep ==
  /\ step_pc = "payload"
  /\ \E k \in shuffled_first(todo) :
       /\ todo[k].kind = "transfer"
       /\ LET idx == todo[k].idx
              op == transfer_ops[idx]
          IN  \E n \in noise(op) :
                LET amount_proc == amount_proc_available(op, n, 0, containers[op.container_input])
                IN  /\ containers' = [containers EXCEPT ![op.container_input] = @ - amount_proc]
                    /\ transfer_ops' = [transfer_ops EXCEPT ![idx].proc_step = amount_proc]
                    /\ done' = done \cup {<<"step", "transfer", idx>>}
       /\ todo' = Remove(todo, k)
  /\ UNCHANGED <<sim_global, containers_processed, store_ops, process_ops, drop_ops,
                 generate_ops, step_pc>>
  /\ UNCHANGED simData

\* StoreOp.step of the payload op the shuffle put next
StoreOpStep ==
  /\ step_pc = "payload"
  /\ \E k \in shuffled_first(todo) :
       /\ todo[k].kind = "store"
       /\ LET idx == todo[k].idx
              op == [store_ops[idx] EXCEPT
                       !.amount_processed = amount_processed_read(store_ops[idx])]
          IN  \E n \in noise(op) :
                LET amount_proc == amount_proc_available(op, n, op.amount_processed,
                                                         containers[op.container_input])
                IN  /\ containers' = [containers EXCEPT ![op.container_input] = @ - amount_proc]
                    /\ store_ops' = [store_ops EXCEPT
                                       ![idx] = [op EXCEPT !.amount_proc = amount_proc,
                                                           !.amount_processed = @ + amount_proc]]
                    /\ done' = done \cup {<<"step", "store", idx>>}
       /\ todo' = Remove(todo, k)
  /\ UNCHANGED <<sim_global, containers_processed, transfer_ops, process_ops, drop_ops,
                 generate_ops, step_pc>>
  /\ UNCHANGED simData

\* TransferOp.step_teardown of the next teardown op
TransferOpTeardown ==
  /\ step_pc = "teardown"
  /\ todo # <<>>
  /\ Head(todo).kind = "transfer"
  /\ LET idx == Head(todo).idx
         op == transfer_ops[idx]
     IN  /\ transfer_ops' = [transfer_ops EXCEPT
                               ![idx] = [op EXCEPT !.amount_processed = @ + op.proc_step,
                                                   !.proc_step = 0]]
         /\ containers' = [containers EXCEPT ![op.container_output] = @ + op.proc_step]
         /\ done' = done \cup {<<"step_teardown", "transfer", idx>>}
  /\ todo' = Tail(todo)
  /\ UNCHANGED <<sim_global, containers_processed, store_ops, process_ops, drop_ops,
                 generate_ops, step_pc>>
  /\ UNCHANGED simData

\* StoreOp.step_teardown of the next teardown op
StoreOpTeardown ==
  /\ step_pc = "teardown"
  /\ todo # <<>>
  /\ Head(todo).kind = "store"
  /\ LET idx == Head(todo).idx
         op == store_ops[idx]
         amount_proc == IF op.amount_proc < 0
                        THEN clamp(op.amount_proc, 0 - containers[op.container_input], 0)
                        ELSE op.amount_proc
         refund == IF op.amount_proc < 0 THEN amount_proc ELSE 0
     IN  /\ containers' = [containers EXCEPT ![op.container_input] = @ + refund]
         /\ store_ops' = [store_ops EXCEPT
                            ![idx] = [op EXCEPT !.amount_proc = amount_proc,
                                                !.amount_processed = @ - refund]]
         /\ containers_processed' =
              [containers_processed EXCEPT ![op.container_processed] = op.amount_processed - refund]
         /\ done' = done \cup {<<"step_teardown", "store", idx>>}
  /\ todo' = Tail(todo)
  /\ UNCHANGED <<sim_global, transfer_ops, process_ops, drop_ops, generate_ops, step_pc>>
  /\ UNCHANGED simData

\* DropOp.step of the next drop op
DropOpStep ==
  /\ step_pc = "drop"
  /\ todo # <<>>
  /\ LET idx == Head(todo).idx
         op == drop_ops[idx]
     IN  /\ drop_ops' = [drop_ops EXCEPT ![idx].amount_processed = @ + containers[op.container_input]]
         /\ containers' = [containers EXCEPT ![op.container_input] = 0]
         /\ done' = done \cup {<<"step", "drop", idx>>}
  /\ todo' = Tail(todo)
  /\ UNCHANGED <<sim_global, containers_processed, transfer_ops, store_ops, process_ops,
                 generate_ops, step_pc>>
  /\ UNCHANGED simData

\* SimGlobal.t_inc, the last statement of Simulation.step, which returns to run
t_inc ==
  /\ step_pc = "t_inc"
  /\ LET time == sim_global.t + sim_global.dt
     IN  sim_global' =
           IF time >= duration
           THEN [sim_global EXCEPT !.t = time, !.new_l = FALSE]
           ELSE [sim_global EXCEPT !.t = time, !.l = t_to_l(time),
                                   !.new_l = (t_to_l(time) # sim_global.l)]
  /\ step_pc' = "run"
  /\ done' = {}
  /\ trace' = IF trace.on THEN [trace EXCEPT !.steps = Append(@, snapshot)] ELSE trace
  /\ UNCHANGED <<containers, containers_processed, transfer_ops, store_ops, process_ops,
                 drop_ops, generate_ops, todo>>
  /\ UNCHANGED runData

NextSim ==
  \/ StepEnter
  \/ LoopEnd
  \/ GenerateOpStep
  \/ ProcessOpStep
  \/ TransferOpStep
  \/ StoreOpStep
  \/ TransferOpTeardown
  \/ StoreOpTeardown
  \/ DropOpStep
  \/ t_inc

SpecSim == InitSim /\ [][NextSim]_vars

(***************************************************************************)
(* SpecClock: the clock of a simulation, SimGlobal over the VirtHelper of  *)
(* a data file whose durations may be 0.                                   *)
(***************************************************************************)
\* the rows of a data file that holds durations of 0..MaxTl ticks only
ClockRows(d) == {<<<<"tl", n>>, d[n]>> : n \in 0..(NL - 1)}

ClockStores ==
  {[key \in {row[1] : row \in ClockRows(d)} |-> (CHOOSE row \in ClockRows(d) : row[1] = key)[2]] :
     d \in [0..(NL - 1) -> 0..MaxTl]}

\* Simulation.__post_init__ down to `self.sim_global = SimGlobal(self.virt_helper)`
InitClock ==
  /\ indexbound = SimSchema
  /\ variables = <<>>
  /\ ret = [op |-> "none"]
  /\ provider \in ClockStores
  /\ pc = "none"
  /\ eq_lhs = <<>>
  /\ eq_rhs = <<>>
  /\ bnd = <<>>
  /\ obj = <<>>
  /\ solution = [status |-> "none"]
  /\ use_noise = FALSE
  /\ shuffle_ops = FALSE
  /\ tl_bounds = __init_duration(get_index_bound("l"))
  /\ sim_global = [t |-> 0, l |-> 0, dt |-> TimeScale, new_l |-> FALSE]
  /\ containers = <<>>
  /\ containers_processed = <<>>
  /\ transfer_ops = <<>>
  /\ store_ops = <<>>
  /\ process_ops = <<>>
  /\ drop_ops = <<>>
  /\ generate_ops = <<>>
  /\ step_pc = "__post_init__"
  /\ todo = <<>>
  /\ done = {}
  /\ trace = [on |-> FALSE]
  /\ NoOrchestration

\* the division of VirtHelper.intensity_upper_generate, which _init_generate_ops
\* makes for every interval: a duration of 0 raises ZeroDivisionError
intensity_upper_generate_raises == \E n \in 0..(get_index_bound("l") - 1) : tl(n) = 0

\* the rest of Simulation.__post_init__: the containers and the operations,
\* of which the clock depends on none
SimulationPostInit ==
  /\ step_pc = "__post_init__"
  /\ step_pc' = IF intensity_upper_generate_raises THEN "ZeroDivisionError" ELSE "run"
  /\ UNCHANGED <<sim_global, containers, containers_processed, transfer_ops, store_ops,
                 process_ops, drop_ops, generate_ops, todo, done>>
  /\ UNCHANGED simData

\* SimGlobal.t_inc: the clock after one more dt
SimGlobal_t_inc ==
  LET time == sim_global.t + sim_global.dt
  IN  IF time >= duration
      THEN [sim_global EXCEPT !.t = time, !.new_l = FALSE]
      ELSE [sim_global EXCEPT !.t = time, !.l = t_to_l(time),
                              !.new_l = (t_to_l(time) # sim_global.l)]

\* one pass of the loop of Simulation.run as the clock sees it: Simulation.step
\* ends with sim_global.t_inc()
ClockStep ==
  /\ step_pc = "run"
  /\ ~ is_finished
  /\ sim_global' = SimGlobal_t_inc
  /\ UNCHANGED <<containers, containers_processed, transfer_ops, store_ops, process_ops,
                 drop_ops, generate_ops, step_pc, todo, done>>
  /\ UNCHANGED simData

NextClock ==
  \/ SimulationPostInit
  \/ ClockStep

SpecClock == InitClock /\ [][NextClock]_vars

\* the same under the scheduling of the program: a construction under way is
\* completed, and the loop of Simulation.run goes on while it is not finished
SpecClockFair == InitClock /\ [][NextClock]_vars /\ WF_vars(NextClock)

(***************************************************************************)
(* SpecQuality: a simulation without noise or shuffling whose data file    *)
(* holds the weights, run to its end and then scored.                      *)
(***************************************************************************)
\* the weight rows of a data file: each of alpha_0, alpha_1 absent, 0 or 1
QualityWeights == {w \in WeightFiles : \A key \in DOMAIN w : w[key] <= 1}

QualityStores ==
  {[key \in DOMAIN s \cup DOMAIN w |-> IF key \in DOMAIN s THEN s[key] ELSE w[key]] :
     s \in SimStores,
     w \in QualityWeights}

InitQuality ==
  /\ indexbound = SimSchema
  /\ variables = <<>>
  /\ ret = [op |-> "none"]
  /\ provider \in QualityStores
  /\ pc = "none"
  /\ eq_lhs = <<>>
  /\ eq_rhs = <<>>
  /\ bnd = <<>>
  /\ obj = <<>>
  /\ solution = [status |-> "none"]
  /\ use_noise = FALSE
  /\ shuffle_ops = FALSE
  /\ tl_bounds = __init_duration(get_index_bound("l"))
  /\ sim_global = [t |-> 0, l |-> 0, dt |-> TimeScale, new_l |-> FALSE]
  /\ containers = _init_make_containers
  /\ containers_processed = _init_make_containers_processed
  /\ transfer_ops = _init_make_transfer_ops
  /\ store_ops = _init_make_store_ops
  /\ process_ops = _init_make_process_ops
  /\ drop_ops = _init_make_drop_ops
  /\ generate_ops = _init_generate_ops
  /\ step_pc = "run"
  /\ todo = <<>>
  /\ done = {}
  /\ trace = [on |-> FALSE]
  /\ NoOrchestration

\* Simulation.quality, called once Simulation.run has returned
CallQuality ==
  /\ step_pc = "run"
  /\ is_finished
  /\ ret.op = "none"
  /\ ret' = [op |-> "quality", result |-> quality]
  /\ UNCHANGED <<indexbound, variables, provider, pc, eq_lhs, eq_rhs, bnd, obj, solution,
                 use_noise, shuffle_ops, tl_bounds>>
  /\ UNCHANGED simVars
  /\ UNCHANGED optVars

NextQuality ==
  \/ StepEnter
  \/ LoopEnd
  \/ GenerateOpStep
  \/ ProcessOpStep
  \/ TransferOpStep
  \/ StoreOpStep
  \/ TransferOpTeardown
  \/ StoreOpTeardown
  \/ DropOpStep
  \/ t_inc
  \/ CallQuality

SpecQuality == InitQuality /\ [][NextQuality]_vars

(***************************************************************************)
(* SpecRerun: a simulation without noise or shuffling that is run, and     *)
(* then run a second time: on a Simulation constructed anew from the same  *)
(* data file, or on the same Simulation after Simulation.reset().  `trace` *)
(* keeps what every step of the run under way left behind (`steps`), and   *)
(* of the run before it (`first`).                                         *)
(***************************************************************************)
\* the runs made of one data file
MaxRuns == 2

\* the data files whose weights let Simulation.quality() return
RerunStores ==
  {s \in QualityStores :
     /\ {<<"alpha_0">>, <<"alpha_1">>} \subseteq DOMAIN s
     /\ s[<<"alpha_0">>] + s[<<"alpha_1">>] = 1}

InitRerun ==
  /\ indexbound = SimSchema
  /\ variables = <<>>
  /\ ret = [op |-> "none"]
  /\ provider \in RerunStores
  /\ pc = "none"
  /\ eq_lhs = <<>>
  /\ eq_rhs = <<>>
  /\ bnd = <<>>
  /\ obj = <<>>
  /\ solution = [status |-> "none"]
  /\ use_noise = FALSE
  /\ shuffle_ops = FALSE
  /\ tl_bounds = __init_duration(get_index_bound("l"))
  /\ sim_global = [t |-> 0, l |-> 0, dt |-> TimeScale, new_l |-> FALSE]
  /\ containers = _init_make_containers
  /\ containers_processed = _init_make_containers_processed
  /\ transfer_ops = _init_make_transfer_ops
  /\ store_ops = _init_make_store_ops
  /\ process_ops = _init_make_process_ops
  /\ drop_ops = _init_make_drop_ops
  /\ generate_ops = _init_generate_ops
  /\ step_pc = "run"
  /\ todo = <<>>
  /\ done = {}
  /\ trace = [on |-> TRUE, run |-> 1, how |-> "new", first |-> <<>>, steps |-> <<>>]
  /\ NoOrchestration

\* Operation.reset on the op itself: its processed amount
Operation_reset(op) == [op EXCEPT !.amount_processed = 0]

\* Simulation.ops_all: the input containers of all the ops, which
\* Operation.reset empties
ops_all_container_input ==
  {generate_ops[idx].container_input : idx \in DOMAIN generate_ops}
    \cup {drop_ops[idx].container_input : idx \in DOMAIN drop_ops}
    \cup {process_ops[idx].container_input : idx \in DOMAIN process_ops}
    \cup {store_ops[idx].container_input : idx \in DOMAIN store_ops}
    \cup {transfer_ops[idx].container_input : idx \in DOMAIN transfer_ops}

\* Simulation.reset, called between two steps or after a run
SimulationReset ==
  /\ step_pc = "run"
  /\ trace.run < MaxRuns
  /\ sim_global' = [sim_global EXCEPT !.t = 0, !.l = 0]
  /\ generate_ops' = [idx \in DOMAIN generate_ops |-> Operation_reset(generate_ops[idx])]
  /\ drop_ops' = [idx \in DOMAIN drop_ops |-> Operation_reset(drop_ops[idx])]
  /\ process_ops' = [idx \in DOMAIN process_ops |-> Operation_reset(process_ops[idx])]
  /\ store_ops' = [idx \in DOMAIN store_ops |-> Operation_reset(store_ops[idx])]
  /\ transfer_ops' = [idx \in DOMAIN transfer_ops |-> Operation_reset(transfer_ops[idx])]
  /\ containers' = [c \in DOMAIN containers |->
                      IF c \in ops_all_container_input THEN 0 ELSE containers[c]]
  /\ trace' = [trace EXCEPT !.run = @ + 1, !.how = "reset", !.first = trace.steps, !.steps = <<>>]
  /\ UNCHANGED <<containers_processed, step_pc, todo, done>>
  /\ UNCHANGED runData

\* Simulation.from_dis on the same data interface: a new Simulation, whose
\* __post_init__ makes a new clock, new containers and new ops
Simulation_from_dis ==
  /\ step_pc = "run"
  /\ trace.run < MaxRuns
  /\ sim_global' = [t |-> 0, l |-> 0, dt |-> TimeScale, new_l |-> FALSE]
  /\ containers' = _init_make_containers
  /\ containers_processed' = _init_make_containers_processed
  /\ transfer_ops' = _init_make_transfer_ops
  /\ store_ops' = _init_make_store_ops
  /\ process_ops' = _init_make_process_ops
  /\ drop_ops' = _init_make_drop_ops
  /\ generate_ops' = _init_generate_ops
  /\ trace' = [trace EXCEPT !.run = @ + 1, !.how = "new", !.first = trace.steps, !.steps = <<>>]
  /\ UNCHANGED <<step_pc, todo, done>>
  /\ UNCHANGED runData

NextRerun ==
  \/ StepEnter
  \/ LoopEnd
  \/ GenerateOpStep
  \/ ProcessOpStep
  \/ TransferOpStep
  \/ StoreOpStep
  \/ TransferOpTeardown
  \/ StoreOpTeardown
  \/ DropOpStep
  \/ t_inc
  \/ SimulationReset
  \/ Simulation_from_dis

SpecRerun == InitRerun /\ [][NextRerun]_vars

(***************************************************************************)
(* SpecGA: the population of GaSimVirtOpt.  A gene is the vector of the    *)
(* fraction variables' cells in row order; a cell is the fraction num/den. *)
(***************************************************************************)
\* the genes Generate(n) appends
PopulationSize == 2

\* the values random.uniform draws for a cell: 1/MaxRaw .. MaxRaw/MaxRaw
MaxRaw == 2

\* the largest denominator of a cell the population is followed to
MaxDen == 4

\* the schema of SpecGA: two loads
GaSchema == [j |-> 1, i |-> 1, rho |-> 2, l |-> 1]

\* the controllable fraction variables, one segment of the gene each
FractionVariables == <<"m_psi", "m_v", "m_phi">>

\* the bounds of the indices of `var` in the schema of SpecGA
gene_radix(var) == [k \in DOMAIN get_var_indices(var) |-> GaSchema[get_var_indices(var)[k]]]

\* the cells of the segment of `var`, in row order
segment(var) ==
  [k \in DOMAIN radix_cartesian_product(gene_radix(var)) |->
     <<var>> \o radix_cartesian_product(gene_radix(var))[k]]

\* the cells of a gene
gene_cells == segment(FractionVariables[1]) \o segment(FractionVariables[2]) \o segment(FractionVariables[3])

\* the positions of the segment of `var` in a gene
segment_positions(var) == {k \in DOMAIN gene_cells : gene_cells[k][1] = var}

\* the slices of a gene: for every position the cells of its variable that
\* differ from it in rho only
slices ==
  [k \in DOMAIN gene_cells |->
     LET var == gene_cells[k][1]
         d(m) == indices_plain_to_dict(var, Tail(gene_cells[m]))
     IN  {m \in segment_positions(var) : \A n \in DOMAIN d(k) \ {"rho"} : d(m)[n] = d(k)[n]}]

\* the slice of the cell at position k
slice(k) == slices[k]

RECURSIVE GCD(_, _)
GCD(a, b) == IF b = 0 THEN a ELSE GCD(b, a % b)

RECURSIVE slice_den(_, _)
\* the product of the denominators of the cells S of a gene
slice_den(gene, S) ==
  IF S = {} THEN 1 ELSE LET m == CHOOSE m \in S : TRUE IN gene[m].den * slice_den(gene, S \ {m})

RECURSIVE slice_sum(_, _, _)
\* the sum of the cells S of a gene, in units of 1/common
slice_sum(gene, S, common) ==
  IF S = {} THEN 0
  ELSE LET m == CHOOSE m \in S : TRUE
       IN  gene[m].num * (common \div gene[m].den) + slice_sum(gene, S \ {m}, common)

RECURSIVE slice_gcd(_, _, _)
slice_gcd(gene, S, common) ==
  IF S = {} THEN 0
  ELSE LET m == CHOOSE m \in S : TRUE
       IN  GCD(gene[m].num * (common \div gene[m].den), slice_gcd(gene, S \ {m}, common))

\* a gene that is left as it is where it ought to be normalized
normalize_slice_skipped(gene, k) == gene

\* normalization of the slice of position k: every cell of it divided by the
\* sum of the slice (in lowest terms; 0/0 when the sum is 0)
normalize_slice(gene, k) ==
  LET common == slice_den(gene, slice(k))
      total == slice_sum(gene, slice(k), common)
      g == slice_gcd(gene, slice(k), common)
  IN  [m \in DOMAIN gene |->
         IF m \notin slice(k) THEN gene[m]
         ELSE IF total = 0 THEN [num |-> 0, den |-> 0]
         ELSE [num |-> (gene[m].num * (common \div gene[m].den)) \div g, den |-> total \div g]]

RECURSIVE normalize_upto(_, _)
normalize_upto(gene, k) == IF k = 0 THEN gene ELSE normalize_slice(normalize_upto(gene, k - 1), k)

\* normalization of every slice of a gene
normalize(gene) == normalize_upto(gene, Len(gene))

\* the genes the generator makes: uniform random values, normalized
generated_genes ==
  {normalize(raw) : raw \in [DOMAIN gene_cells -> [num : 1..MaxRaw, den : {MaxRaw}]]}

\* a gene whose cells all stay within the denominators followed
followed(gene) == \A k \in DOMAIN gene : gene[k].den <= MaxDen

InitGA ==
  /\ indexbound = GaSchema
  /\ variables = <<>>
  /\ ret = [op |-> "none"]
  /\ provider = <<>>
  /\ pc = "none"
  /\ eq_lhs = <<>>
  /\ eq_rhs = <<>>
  /\ bnd = <<>>
  /\ obj = <<>>
  /\ solution = [status |-> "none"]
  /\ NoSimulation
  /\ csv_file = [rows |-> {}, writes |-> 0]
  /\ csv_provider = <<>>
  /\ virt_opt = [pc |-> "none"]
  /\ best_performer_config = <<>>
  /\ opt_hist = <<>>
  /\ population = <<>>

gaUnchanged == <<indexbound, variables, ret, csv_file, csv_provider, virt_opt, best_performer_config, opt_hist>>

\* Generate(n): n normalized random genes are appended to the population
population_generate_append ==
  /\ population = <<>>
  /\ population' \in [1..PopulationSize -> generated_genes]
  /\ UNCHANGED gaUnchanged
  /\ UNCHANGED lpVars
  /\ UNCHANGED simVars

\* a gene with the cells p..q exchanged for those of the gene `other`
swapped(gene, other, p, q) == [k \in DOMAIN gene |-> IF p <= k /\ k <= q THEN other[k] ELSE gene[k]]

\* the contiguous sub-slices (first and last position) of the segment of `var`
sub_slices(var) == {r \in segment_positions(var) \X segment_positions(var) : r[1] <= r[2]}

\* CrossRandomFraction on the pair of genes: in every segment a random
\* contiguous sub-slice is swapped, then both children are renormalized
population_cross_fraction_random ==
  /\ Len(population) = PopulationSize
  /\ \E r1 \in sub_slices(FractionVariables[1]), r2 \in sub_slices(FractionVariables[2]),
        r3 \in sub_slices(FractionVariables[3]) :
       LET cross(gene, other) ==
             swapped(swapped(swapped(gene, other, r1[1], r1[2]), other, r2[1], r2[2]),
                     other, r3[1], r3[2])
           a == normalize(cross(population[1], population[2]))
           b == normalize(cross(population[2], population[1]))
       IN  /\ followed(a)
           /\ followed(b)
           /\ population' = [population EXCEPT ![1] = a, ![2] = b]
  /\ UNCHANGED gaUnchanged
  /\ UNCHANGED lpVars
  /\ UNCHANGED simVars

\* RandomMutate: a random cell of a gene is perturbed by a fraction (a half)
\* of its value, up or down, and its slice is renormalized
population_mutate_random ==
  /\ population # <<>>
  /\ \E n \in DOMAIN population, k \in DOMAIN gene_cells, sign \in {-1, 1} :
       LET gene == population[n]
           perturbed == [gene EXCEPT ![k] = [num |-> gene[k].num * (2 + sign), den |-> gene[k].den * 2]]
           mutated == normalize_slice(perturbed, k)
       IN  /\ followed(mutated)
           /\ population' = [population EXCEPT ![n] = mutated]
  /\ UNCHANGED gaUnchanged
  /\ UNCHANGED lpVars
  /\ UNCHANGED simVars

NextGA ==
  \/ population_generate_append
  \/ population_cross_fraction_random
  \/ population_mutate_random

SpecGA == InitGA /\ [][NextGA]_vars

(***************************************************************************)
(* SpecDelivery: a simulation whose data file has arrivals at both nodes,  *)
(* so that the node a channel delivers to has stored arrivals of its own.  *)
(***************************************************************************)
\* the rows of such a data file: those of SimRows with a channel 0 -> 1 and a
\* storage plan for interval 0 or for every interval, and arrivals at node 1
\* in interval 0
DeliveryRows(p) ==
  SimRows([tl |-> p.tl, keep |-> p.keep, psi |-> MaxRate])
  \cup {<<<<"x_eq", 1, r, 0>>, MaxRate * p.tl[0]>> : r \in 0..(NRho - 1)}

DeliveryStores ==
  {[key \in {row[1] : row \in DeliveryRows(p)} |->
      (CHOOSE row \in DeliveryRows(p) : row[1] = key)[2]] :
     p \in [tl : [0..(NL - 1) -> 1..MaxTl], keep : BOOLEAN]}

InitDelivery ==
  /\ indexbound = SimSchema
  /\ variables = <<>>
  /\ ret = [op |-> "none"]
  /\ provider \in DeliveryStores
  /\ pc = "none"
  /\ eq_lhs = <<>>
  /\ eq_rhs = <<>>
  /\ bnd = <<>>
  /\ obj = <<>>
  /\ solution = [status |-> "none"]
  /\ use_noise = FALSE
  /\ shuffle_ops \in BOOLEAN
  /\ tl_bounds = __init_duration(get_index_bound("l"))
  /\ sim_global = [t |-> 0, l |-> 0, dt |-> TimeScale, new_l |-> FALSE]
  /\ containers = _init_make_containers
  /\ containers_processed = _init_make_containers_processed
  /\ transfer_ops = _init_make_transfer_ops
  /\ store_ops = _init_make_store_ops
  /\ process_ops = _init_make_process_ops
  /\ drop_ops = _init_make_drop_ops
  /\ generate_ops = _init_generate_ops
  /\ step_pc = "run"
  /\ todo = <<>>
  /\ done = {}
  /\ trace = [on |-> FALSE]
  /\ NoOrchestration

SpecDelivery == InitDelivery /\ [][NextSim]_vars

(***************************************************************************)
(* SpecHelper: a VirtHelper over a data file of durations, and calls of    *)
(* its t_to_l.                                                             *)
(***************************************************************************)
\* the times t_to_l is called with: up to one tick beyond the longest duration
MaxTime == NL * MaxTl + 1

InitHelper ==
  /\ indexbound = SimSchema
  /\ variables = <<>>
  /\ ret = [op |-> "none"]
  /\ provider \in ClockStores
  /\ pc = "none"
  /\ eq_lhs = <<>>
  /\ eq_rhs = <<>>
  /\ bnd = <<>>
  /\ obj = <<>>
  /\ solution = [status |-> "none"]
  /\ use_noise = FALSE
  /\ shuffle_ops = FALSE
  /\ tl_bounds = __init_duration(get_index_bound("l"))
  /\ sim_global = [t |-> 0, l |-> 0, dt |-> TimeScale, new_l |-> FALSE]
  /\ containers = <<>>
  /\ containers_processed = <<>>
  /\ transfer_ops = <<>>
  /\ store_ops = <<>>
  /\ process_ops = <<>>
  /\ drop_ops = <<>>
  /\ generate_ops = <<>>
  /\ step_pc = "none"
  /\ todo = <<>>
  /\ done = {}
  /\ trace = [on |-> FALSE]
  /\ NoOrchestration

\* the loop of VirtHelper.t_to_l reaches its `return l`
t_to_l_returns(time) == \E n \in DOMAIN tl_bounds : time < tl_bounds[n]

\* A call reads the VirtHelper and changes nothing of it: one call per
\* behaviour covers all.
CallTToL ==
  \E time \in 0..MaxTime :
    /\ ret.op = "none"
    /\ ret' = [op |-> "t_to_l", time |-> time, returns |-> t_to_l_returns(time),
               val |-> t_to_l(time)]
    /\ UNCHANGED <<indexbound, variables>>
    /\ UNCHANGED lpVars
    /\ UNCHANGED simVars
    /\ UNCHANGED optVars

NextHelper == CallTToL

SpecHelper == InitHelper /\ [][NextHelper]_vars

(***************************************************************************)
(* SpecOpt: VirtOpt, which alternates the planner and the genetic          *)
(* algorithm on a scratch store (`provider`, the DictRamDataProvider) and  *)
(* commits it to the persistent store of the data file.                    *)
(***************************************************************************)
\* VirtOpt.CONF_STOP_N_ITERATIONS
CONF_STOP_N_ITERATIONS == 20

\* the values of conf_stop_n_iterations that are tried next to the default
MaxIterations == 2

\* the schema file of SpecOpt: one node, one load, one interval
OptSchema == [j |-> 1, i |-> 1, rho |-> 1, l |-> 1]

\* the data files of SpecOpt: an arrival (which a faulty file gives as
\* negative), a processing capacity or none, both weights or none, a duration
OptFiles ==
  {{<<<<"x_eq", 0, 0, 0>>, p.x_eq>>, <<<<"tl", 0>>, 1>>}
     \cup (IF p.phi THEN {<<<<"phi", 0, 0, 0>>, MaxVal>>} ELSE {})
     \cup (IF p.alpha THEN {<<<<"alpha_0">>, 1>>, <<<<"alpha_1">>, 1>>} ELSE {}) :
     p \in [x_eq : {-1, MaxVal}, phi : BOOLEAN, alpha : BOOLEAN]}

\* DataInterface.update whose loop sets nothing
update_nothing(store, other) == store

\* DataInterface.update: set_plain of every item of the other store
update(store, other) ==
  [key \in DOMAIN store \cup DOMAIN other |-> IF key \in DOMAIN other THEN other[key] ELSE store[key]]

\* PermissiveCsvBufferedDataProvider.__post_init__: set_plain of every row
\* of the file (no key is on two rows of the files of OptFiles)
csv_load(rows) == [key \in {row[1] : row \in rows} |-> (CHOOSE row \in rows : row[1] = key)[2]]

\* PermissiveCsvBufferedDataProvider.sync: one row per item of the store
csv_rows(store) == {<<key, store[key]>> : key \in DOMAIN store}

\* `for _ in range(conf_stop_n_iterations)` has no iteration left, ended
\* after the first iteration
range_exhausted_after_one(made, n) == made >= 1 \/ made >= n

\* `for _ in range(conf_stop_n_iterations)` has no iteration left
range_exhausted(made, n) == made >= n

\* the store of the best gene of GaSimVirtOpt: a copy of the store the
\* algorithm was given with the fraction variables set from the gene, whose
\* slices over rho sum to 1
best_gene_store(store) ==
  LET fractions ==
        {<<"m_psi">> \o t : t \in Range(indices_iter_plain(get_var_indices("m_psi")))}
        \cup {<<"m_v">> \o t : t \in Range(indices_iter_plain(get_var_indices("m_v")))}
        \cup {<<"m_phi">> \o t : t \in Range(indices_iter_plain(get_var_indices("m_phi")))}
  IN  [key \in DOMAIN store \cup fractions |-> IF key \in fractions THEN 1 ELSE store[key]]

InitOpt ==
  /\ indexbound = OptSchema
  /\ variables = PlannerVariables
  /\ ret = [op |-> "none"]
  /\ provider = <<>>
  /\ pc = "new"
  /\ eq_lhs = <<>>
  /\ eq_rhs = <<>>
  /\ bnd = <<>>
  /\ obj = <<>>
  /\ solution = [status |-> "none"]
  /\ NoSimulation
  /\ \E rows \in OptFiles : csv_file = [rows |-> rows, writes |-> 0]
  /\ csv_provider = <<>>
  /\ \E n \in 0..MaxIterations \cup {CONF_STOP_N_ITERATIONS} :
       virt_opt = [pc |-> "new", conf_stop_n_iterations |-> n, iterations |-> 0]
  /\ best_performer_config = <<>>
  /\ opt_hist = [loaded |-> <<>>, calls |-> <<>>]
  /\ population = <<>>

optUnchanged == <<indexbound, variables, ret, use_noise, shuffle_ops, tl_bounds, sim_global, containers,
                  containers_processed, transfer_ops, store_ops, process_ops, drop_ops,
                  generate_ops, step_pc, todo, done, trace, population>>

\* VirtOpt.__post_init__: the persistent store is loaded from the file and
\* the scratch store is updated from it
VirtOptPostInit ==
  /\ virt_opt.pc = "new"
  /\ csv_provider' = csv_load(csv_file.rows)
  /\ provider' = update(provider, csv_load(csv_file.rows))
  /\ virt_opt' = [virt_opt EXCEPT !.pc = "constructed"]
  /\ opt_hist' = [opt_hist EXCEPT !.loaded = csv_load(csv_file.rows)]
  /\ UNCHANGED <<csv_file, best_performer_config, pc, eq_lhs, eq_rhs, bnd, obj, solution>>
  /\ UNCHANGED optUnchanged

\* VirtOpt.run down to its loop: LinsolvPlanner.__post_init__ on the scratch
\* store, whose asserts may fail
RunEnter ==
  /\ virt_opt.pc = "constructed"
  /\ IF validate /\ init_obj_asserts
     THEN /\ eq_lhs' = make_eq.lhs
          /\ eq_rhs' = make_eq.rhs
          /\ bnd' = init_bnd_matrix
          /\ obj' = init_obj
          /\ pc' = "constructed"
          /\ virt_opt' = [virt_opt EXCEPT !.pc = "loop"]
     ELSE /\ UNCHANGED <<eq_lhs, eq_rhs, bnd, obj>>
          /\ pc' = "construct_failed"
          /\ virt_opt' = [virt_opt EXCEPT !.pc = "raised"]
  /\ UNCHANGED <<csv_file, csv_provider, best_performer_config, opt_hist, provider, solution>>
  /\ UNCHANGED optUnchanged

\* a solve that keeps its solution as the bounds of the planner
LsPlannerSolveInPlace ==
  /\ virt_opt.pc = "loop"
  /\ ~ range_exhausted(virt_opt.iterations, virt_opt.conf_stop_n_iterations)
  /\ \E res \in linprog(obj, bnd, eq_lhs, eq_rhs) :
       /\ solution' = res
       /\ IF res.status = 0
          THEN /\ provider' = register_solution(provider, res.x, Len(variables))
               /\ bnd' = [k \in DOMAIN bnd |-> [lower |-> res.x[k], upper |-> res.x[k], inf |-> FALSE]]
               /\ pc' = "solved"
               /\ virt_opt' = [virt_opt EXCEPT !.pc = "ga"]
          ELSE /\ UNCHANGED <<provider, bnd>>
               /\ pc' = "solve_failed"
               /\ virt_opt' = [virt_opt EXCEPT !.pc = "raised"]
  /\ opt_hist' = [opt_hist EXCEPT !.calls = Append(@, "solve")]
  /\ UNCHANGED <<csv_file, csv_provider, best_performer_config, eq_lhs, eq_rhs, obj>>
  /\ UNCHANGED optUnchanged

\* ls_planner.solve() of one more iteration
LsPlannerSolve ==
  /\ virt_opt.pc = "loop"
  /\ ~ range_exhausted(virt_opt.iterations, virt_opt.conf_stop_n_iterations)
  /\ \E res \in linprog(obj, bnd, eq_lhs, eq_rhs) :
       /\ solution' = res
       /\ IF res.status = 0
          THEN /\ provider' = register_solution(provider, res.x, Len(variables))
               /\ pc' = "solved"
               /\ virt_opt' = [virt_opt EXCEPT !.pc = "ga"]
          ELSE /\ UNCHANGED provider
               /\ pc' = "solve_failed"
               /\ virt_opt' = [virt_opt EXCEPT !.pc = "raised"]
  /\ opt_hist' = [opt_hist EXCEPT !.calls = Append(@, "solve")]
  /\ UNCHANGED <<csv_file, csv_provider, best_performer_config, eq_lhs, eq_rhs, bnd, obj>>
  /\ UNCHANGED optUnchanged

\* ga_sim_virt_opt.run(): it returns the best performer's store, or one of
\* its simulations raises
GaSimVirtOptRun ==
  /\ virt_opt.pc = "ga"
  /\ \E raises \in BOOLEAN :
       IF raises
       THEN /\ virt_opt' = [virt_opt EXCEPT !.pc = "raised"]
            /\ UNCHANGED best_performer_config
       ELSE /\ virt_opt' = [virt_opt EXCEPT !.pc = "update"]
            /\ best_performer_config' = best_gene_store(provider)
  /\ opt_hist' = [opt_hist EXCEPT !.calls = Append(@, "ga")]
  /\ UNCHANGED <<csv_file, csv_provider, provider, pc, eq_lhs, eq_rhs, bnd, obj, solution>>
  /\ UNCHANGED optUnchanged

\* self.ram_data_interface.update(best_performer_config()), which ends the
\* iteration
UpdateRam ==
  /\ virt_opt.pc = "update"
  /\ provider' = update(provider, best_performer_config)
  /\ virt_opt' = [virt_opt EXCEPT !.pc = "loop", !.iterations = @ + 1]
  /\ opt_hist' = [opt_hist EXCEPT !.calls = Append(@, "update")]
  /\ UNCHANGED <<csv_file, csv_provider, best_performer_config, pc, eq_lhs, eq_rhs, bnd, obj, solution>>
  /\ UNCHANGED optUnchanged

\* self.csv_data_interface.update(self.ram_data_interface) after the loop,
\* the last statement of VirtOpt.run
UpdateCsv ==
  /\ virt_opt.pc = "loop"
  /\ range_exhausted(virt_opt.iterations, virt_opt.conf_stop_n_iterations)
  /\ csv_provider' = update(csv_provider, provider)
  /\ virt_opt' = [virt_opt EXCEPT !.pc = "returned"]
  /\ opt_hist' = [opt_hist EXCEPT !.calls = Append(@, "update_csv")]
  /\ UNCHANGED <<csv_file, provider, best_performer_config, pc, eq_lhs, eq_rhs, bnd, obj, solution>>
  /\ UNCHANGED optUnchanged

\* DataInterface.__del__ of csv_data_interface, when the VirtOpt that run has
\* left (or that was never run) is destroyed: provider.sync() writes the file
DataInterface__del__ ==
  /\ virt_opt.pc \in {"constructed", "returned", "raised"}
  /\ csv_file' = [rows |-> csv_rows(csv_provider), writes |-> csv_file.writes + 1]
  /\ virt_opt' = [virt_opt EXCEPT !.pc = "deleted"]
  /\ opt_hist' = [opt_hist EXCEPT !.calls = Append(@, "__del__ after " \o virt_opt.pc)]
  /\ UNCHANGED <<csv_provider, provider, best_performer_config, pc, eq_lhs, eq_rhs, bnd, obj, solution>>
  /\ UNCHANGED optUnchanged

NextOpt ==
  \/ VirtOptPostInit
  \/ RunEnter
  \/ LsPlannerSolve
  \/ GaSimVirtOptRun
  \/ UpdateRam
  \/ UpdateCsv
  \/ DataInterface__del__

SpecOpt == InitOpt /\ [][NextOpt]_vars

(***************************************************************************)
(* SpecData: the reads and writes of a data store through DataInterface    *)
(* and ZeroingDataInterface.                                               *)
(***************************************************************************)
\* the schema of SpecData
DataSchema == [j |-> 2, i |-> 2, rho |-> 1, l |-> 1]

\* the keys the stores of SpecData may hold
StoreKeys == {<<"y", 0, 0, 0>>, <<"y", 1, 0, 0>>, <<"x", 0, 1, 0, 0>>}

\* the keys get_plain is called with: those, and one no store holds
PlainKeys == StoreKeys \cup {<<"x", 1, 0, 0, 0>>}

\* the keyword arguments get is called with: the index names of x or of y,
\* each with a value of 0 or 1
GetArgs == UNION {[Range(variableindices[w]) -> 0..1] : w \in {"x", "y"}}

InitData ==
  /\ indexbound = DataSchema
  /\ variables = <<>>
  /\ ret = [op |-> "none"]
  /\ provider \in UNION {[K -> 1..(MaxVal + 1)] : K \in SUBSET StoreKeys}
  /\ pc = "none"
  /\ eq_lhs = <<>>
  /\ eq_rhs = <<>>
  /\ bnd = <<>>
  /\ obj = <<>>
  /\ solution = [status |-> "none"]
  /\ NoSimulation
  /\ NoOrchestration

dataUnchanged == <<indexbound, variables, pc, eq_lhs, eq_rhs, bnd, obj, solution>>

\* DataInterface.set_plain(*key, value)
CallSetPlain ==
  \E key \in StoreKeys, value \in 1..(MaxVal + 1) :
    /\ ret.op = "none"
    /\ provider' = set_plain(provider, key, value)
    /\ UNCHANGED ret
    /\ UNCHANGED dataUnchanged
    /\ UNCHANGED simVars
    /\ UNCHANGED optVars

\* DataInterface.get_plain(*key) / ZeroingDataInterface.get_plain(*key)
CallGetPlain ==
  \E interface \in {"DataInterface", "ZeroingDataInterface"}, key \in PlainKeys :
    /\ ret.op = "none"
    /\ ret' = [op |-> "get_plain", interface |-> interface, key |-> key,
               result |-> IF interface = "DataInterface" THEN DataInterface_get_plain(key)
                          ELSE Returned(ZeroingDataInterface_get_plain(key))]
    /\ UNCHANGED provider
    /\ UNCHANGED dataUnchanged
    /\ UNCHANGED simVars
    /\ UNCHANGED optVars

\* DataInterface.get(variable, **indices) / ZeroingDataInterface.get(variable, **indices)
CallGet ==
  \E interface \in {"DataInterface", "ZeroingDataInterface"}, variable \in {"x", "y"}, idx \in GetArgs :
    /\ ret.op = "none"
    /\ ret' = [op |-> "get", interface |-> interface, variable |-> variable, idx |-> idx,
               result |-> IF interface = "DataInterface" THEN DataInterface_get(variable, idx)
                          ELSE Returned(ZeroingDataInterface_get(variable, idx))]
    /\ UNCHANGED provider
    /\ UNCHANGED dataUnchanged
    /\ UNCHANGED simVars
    /\ UNCHANGED optVars

NextData ==
  \/ CallSetPlain
  \/ CallGetPlain
  \/ CallGet

SpecData == InitData /\ [][NextData]_vars

(***************************************************************************)
(* SpecPlan: the planner on the instances of two scenarios, a transfer     *)
(* between two nodes and a carry-over between two intervals.               *)
(***************************************************************************)
\* two nodes, one load, one interval
TransferSchema == [j |-> 2, i |-> 2, rho |-> 1, l |-> 1]

\* one node, one load, two intervals
CarryoverSchema == [j |-> 1, i |-> 1, rho |-> 1, l |-> 2]

\* the rows of the weights, both positive
PlanWeights == {{<<<<"alpha_0">>, w[1]>>, <<<<"alpha_1">>, w[2]>>} : w \in (1..MaxAlpha) \X (1..MaxAlpha)}

\* the data files of the transfer: arrivals at node 0 only, a processing
\* capacity at node 1 only, a channel 0 -> 1 only, no memory; a capacity of 0
\* has no row
TransferFiles ==
  {(IF p.x_eq > 0 THEN {<<<<"x_eq", 0, 0, 0>>, p.x_eq>>} ELSE {})
     \cup (IF p.phi > 0 THEN {<<<<"phi", 1, 0, 0>>, p.phi>>} ELSE {})
     \cup (IF p.psi > 0 THEN {<<<<"psi", 0, 1, 0, 0>>, p.psi>>} ELSE {})
     \cup w :
     p \in [x_eq : 0..SolMax, phi : 0..SolMax, psi : 0..SolMax], w \in PlanWeights}

\* the data files of the carry-over, in units of 20: arrivals of 100 in
\* interval 0 and none in interval 1, processing capacities of 40 and 80, a
\* memory of 100
CarryoverFiles ==
  {{<<<<"x_eq", 0, 0, 0>>, 5>>, <<<<"phi", 0, 0, 0>>, 2>>, <<<<"phi", 0, 0, 1>>, 4>>,
    <<<<"v", 0, 0, 0>>, 5>>, <<<<"v", 0, 0, 1>>, 5>>} \cup w : w \in PlanWeights}

InitPlan ==
  /\ \E b \in {TransferSchema, CarryoverSchema} :
       /\ indexbound = b
       /\ \E rows \in (IF b = TransferSchema THEN TransferFiles ELSE CarryoverFiles) :
            provider = csv_load(rows)
  /\ variables = PlannerVariables
  /\ ret = [op |-> "none"]
  /\ pc = "new"
  /\ eq_lhs = <<>>
  /\ eq_rhs = <<>>
  /\ bnd = <<>>
  /\ obj = <<>>
  /\ solution = [status |-> "none"]
  /\ NoSimulation
  /\ NoOrchestration

SpecPlan == InitPlan /\ [][NextLP]_vars

(***************************************************************************)
(* Properties of the row layout.                                           *)
(***************************************************************************)
\* the in-range index tuples of a variable, as keyword arguments
InRangeArgs(var) ==
  {idx \in [Range(variableindices[var]) -> 0..MaxBound] : \A n \in DOMAIN idx : idx[n] < indexbound[n]}

\* every (variable, index tuple) instance of the row
RowInstances == {<<var, idx>> : var \in Range(variables), idx \in IndexArgs} \cap
                UNION {{<<var, idx>> : idx \in InRangeArgs(var)} : var \in Range(variables)}

RowImage == {get_pos(inst[1], inst[2]) : inst \in RowInstances}

\* C4: get_row_len() is the number of instances of the row's variables (the sum
\* over the variables of the product of their index bounds), and get_pos maps
\* the in-range instances one-to-one onto 0 .. rowLen-1.
C4_RowLayout ==
  ret.op = "get_row_len" =>
    /\ ret.val = Cardinality(RowInstances)
    /\ RowImage = 0..(ret.val - 1)
    /\ \A a, b \in RowInstances : get_pos(a[1], a[2]) = get_pos(b[1], b[2]) => a = b

C4_Witness ==
  /\ ret.op = "get_row_len"
  /\ Len(variables) = 3
  /\ \A n \in IndexNames : indexbound[n] = 2
  /\ ret.val = 26

\* the value of the index tuple as a mixed-radix numeral, most significant
\* digit first (Horner's rule over the declared index order)
RECURSIVE MixedRadixValue(_, _, _)
MixedRadixValue(var, idx, k) ==
  IF k = 0 THEN 0
  ELSE MixedRadixValue(var, idx, k - 1) * indexbound[variableindices[var][k]]
       + idx[variableindices[var][k]]

\* the number of instances of the variables declared before `var`
PrecedingCount(var) ==
  Cardinality({inst \in RowInstances : list_index(variables, inst[1]) < list_index(variables, var)})

\* C5: get_pos(v, idx) = (instances of the variables that precede v in the
\* declared order) + (mixed-radix value of idx), so that V[0] occupies [0, N0).
C5_PrecedingOffset ==
  (/\ ret.op = "get_pos"
   /\ <<ret.variable, ret.idx>> \in RowInstances)
  => ret.val = PrecedingCount(ret.variable)
               + MixedRadixValue(ret.variable, ret.idx, Len(variableindices[ret.variable]))

(***************************************************************************)
(* Properties of the planner.                                              *)
(***************************************************************************)
Constructed == pc \in {"constructed", "solved", "solve_failed"}

\* the (j, rho, l) tuples of x_eq's index domain
Cells ==
  {c \in [{"j", "rho", "l"} -> 0..(MaxBound - 1)] : \A n \in DOMAIN c : c[n] < indexbound[n]}

Nodes == 0..(indexbound["j"] - 1)

XKw(j, i, c) == [j |-> j, i |-> i, rho |-> c["rho"], l |-> c["l"]]

PrevKw(c) == [j |-> c["j"], rho |-> c["rho"], l |-> c["l"] - 1]

\* the value the store holds for a key, 0 when the key is absent
StoredOrZero(key) == IF key \in DOMAIN provider THEN provider[key] ELSE 0

RECURSIVE SetSum(_, _)
SetSum(f, S) ==
  IF S = {} THEN 0 ELSE LET e == CHOOSE e \in S : TRUE IN f[e] + SetSum(f, S \ {e})

\* the left-hand side of the flow equation of cell c, read from the vector x
Balance(x, c) ==
  x[get_pos("g", c)] + x[get_pos("y", c)] + x[get_pos("z", c)]
  - (IF c["l"] > 0 THEN x[get_pos("y", PrevKw(c))] ELSE 0)
  + SetSum([i \in Nodes |-> x[get_pos("x", XKw(c["j"], i, c))]], Nodes \ {c["j"]})
  - SetSum([i \in Nodes |-> x[get_pos("x", XKw(i, c["j"], c))]], Nodes \ {c["j"]})

\* C2: after a successful solve, the solution read at get_pos satisfies the
\* flow equation of every (j, rho, l): g + y - y[l-1] + z + out - in = x_eq.
C2_SolutionBalanced ==
  pc = "solved" =>
    \A c \in Cells : Balance(solution.x, c) = StoredOrZero(<<"x_eq", c["j"], c["rho"], c["l"]>>)

C2_Witness ==
  /\ pc = "solved"
  /\ indexbound["j"] = 2
  /\ StoredOrZero(<<"x_eq", 0, 0, 0>>) = 1
  /\ solution.x[get_pos("x", [j |-> 0, i |-> 1, rho |-> 0, l |-> 0])] = 1
  /\ solution.x[get_pos("g", [j |-> 1, rho |-> 0, l |-> 0])] = 1

\* the row the flow equation of cell c prescribes
ExpectedRow(c) ==
  [p \in 0..(get_row_len - 1) |->
     IF p \in {get_pos("g", c), get_pos("y", c), get_pos("z", c)} THEN 1
     ELSE IF c["l"] > 0 /\ p = get_pos("y", PrevKw(c)) THEN -1
     ELSE IF \E i \in Nodes \ {c["j"]} : p = get_pos("x", XKw(c["j"], i, c)) THEN 1
     ELSE IF \E i \in Nodes \ {c["j"]} : p = get_pos("x", XKw(i, c["j"], c)) THEN -1
     ELSE 0]

\* C3: the equality system has exactly one row per (j, rho, l) of x_eq's index
\* domain, of length rowLen, with the coefficients of the flow equation and the
\* right-hand side x_eq[j, rho, l], and as many right-hand sides as rows.
C3_EqualitySystem ==
  Constructed =>
    /\ Len(eq_lhs) = indexbound["j"] * indexbound["rho"] * indexbound["l"]
    /\ Len(eq_rhs) = Len(eq_lhs)
    /\ \A r \in DOMAIN eq_lhs : DOMAIN eq_lhs[r] = 0..(get_row_len - 1)
    /\ \A c \in Cells :
         Cardinality({r \in DOMAIN eq_lhs :
                        /\ eq_lhs[r] = ExpectedRow(c)
                        /\ eq_rhs[r] = StoredOrZero(<<"x_eq", c["j"], c["rho"], c["l"]>>)}) = 1

C3_Witness ==
  /\ pc = "constructed"
  /\ indexbound["l"] = 2
  /\ eq_lhs[2][get_pos("y", [j |-> 0, rho |-> 0, l |-> 0])] = -1
  /\ eq_lhs[2][get_pos("y", [j |-> 0, rho |-> 0, l |-> 1])] = 1
  /\ eq_rhs = <<1, -1>>

\* C6: the bounds vector has rowLen entries; x, y, g are bounded by [0, psi],
\* [0, v], [0, phi] at their positions, an absent capacity giving the upper
\* bound 0; every z position is bounded by [0, +infinity).
C6_Bounds ==
  Constructed =>
    /\ DOMAIN bnd = 0..(get_row_len - 1)
    /\ \A j, i \in Nodes, c \in Cells :
         bnd[get_pos("x", XKw(j, i, c))] =
           [lower |-> 0, upper |-> StoredOrZero(<<"psi", j, i, c["rho"], c["l"]>>), inf |-> FALSE]
    /\ \A c \in Cells :
         /\ bnd[get_pos("y", c)] =
              [lower |-> 0, upper |-> StoredOrZero(<<"v", c["j"], c["rho"], c["l"]>>), inf |-> FALSE]
         /\ bnd[get_pos("g", c)] =
              [lower |-> 0, upper |-> StoredOrZero(<<"phi", c["j"], c["rho"], c["l"]>>), inf |-> FALSE]
         /\ bnd[get_pos("z", c)].lower = 0
         /\ bnd[get_pos("z", c)].inf

C6_Witness ==
  /\ pc = "constructed"
  /\ indexbound["j"] = 2
  /\ <<"phi", 1, 0, 0>> \in DOMAIN provider
  /\ <<"v", 1, 0, 0>> \notin DOMAIN provider
  /\ bnd[get_pos("g", [j |-> 1, rho |-> 0, l |-> 0])].upper = 1
  /\ bnd[get_pos("y", [j |-> 1, rho |-> 0, l |-> 0])].upper = 0
  /\ bnd[get_pos("x", [j |-> 0, i |-> 1, rho |-> 0, l |-> 0])].upper = 1

\* C7: the objective is -alpha_0 at every g position, +alpha_1 at every z
\* position and 0 at every x and y position; the construction of the planner
\* fails when alpha_0 or alpha_1 is zero.
C7_Objective ==
  /\ Constructed =>
       /\ DOMAIN obj = 0..(get_row_len - 1)
       /\ \A c \in Cells :
            /\ obj[get_pos("g", c)] = - StoredOrZero(<<"alpha_0">>)
            /\ obj[get_pos("z", c)] = StoredOrZero(<<"alpha_1">>)
            /\ obj[get_pos("y", c)] = 0
       /\ \A j, i \in Nodes, c \in Cells : obj[get_pos("x", XKw(j, i, c))] = 0
  /\ (pc # "new" /\ (StoredOrZero(<<"alpha_0">>) = 0 \/ StoredOrZero(<<"alpha_1">>) = 0))
       => pc = "construct_failed"

C7_Witness ==
  /\ pc = "constructed"
  /\ provider[<<"alpha_0">>] = 2
  /\ provider[<<"alpha_1">>] = 1
  /\ obj[get_pos("g", [j |-> 0, rho |-> 0, l |-> 0])] = -2
  /\ obj[get_pos("z", [j |-> 0, rho |-> 0, l |-> 0])] = 1

\* the keys solve() is to write: every in-range (v, idx) of the row variables
SolutionKeys ==
  UNION {{indices_dict_to_plain(var, idx) : idx \in InRangeArgs(var)} : var \in Range(variables)}

KeyKw(key) == indices_plain_to_dict(key[1], Tail(key))

\* C8: solve() writes to the data store exactly when the solver reports status
\* 0: then every (v, idx) of y, x, z, g holds solution[get_pos(v, idx)] and every
\* other key is unchanged; otherwise solve fails and no key is changed.
C8_SolveWrites ==
  [][(pc \in {"constructed", "solved"}) =>
       /\ solution'.status = 0 =>
            /\ pc' = "solved"
            /\ DOMAIN provider' = DOMAIN provider \cup SolutionKeys
            /\ \A key \in SolutionKeys : provider'[key] = solution'.x[get_pos(key[1], KeyKw(key))]
            /\ \A key \in DOMAIN provider \ SolutionKeys : provider'[key] = provider[key]
       /\ solution'.status # 0 =>
            /\ pc' = "solve_failed"
            /\ provider' = provider]_vars

C8_Witness ==
  /\ pc = "solved"
  /\ indexbound["l"] = 2
  /\ solution.status = 0
  /\ provider[<<"y", 0, 0, 0>>] = 1
  /\ provider[<<"g", 0, 0, 1>>] = 1
  /\ provider[<<"x_eq", 0, 0, 0>>] = 1

\* a solve that failed as infeasible is reached
C8_FailureReached == pc = "solve_failed" /\ solution.status = 2

(***************************************************************************)
(* Properties of the simulation.                                           *)
(***************************************************************************)
\* Simulation.run has returned
RunReturned == step_pc = "run" /\ is_finished

\* amount_processed of the op at idx, 0 where the dict has no such op
processed(ops, idx) == IF idx \in DOMAIN ops THEN ops[idx].amount_processed ELSE 0

\* the sum of f(e) over the elements of S
RECURSIVE SumOver(_, _)
SumOver(f(_), S) ==
  IF S = {} THEN 0 ELSE LET e == CHOOSE e \in S : TRUE IN f(e) + SumOver(f, S \ {e})

\* processed + dropped + net stored + net transferred out at container c
SimBalance(c) ==
  LET others == (0..(indexbound["j"] - 1)) \ {c[1]}
      out(i) == processed(transfer_ops, <<c[1], i, c[2], c[3]>>)
      in(i) == processed(transfer_ops, <<i, c[1], c[2], c[3]>>)
  IN  processed(process_ops, c) + processed(drop_ops, c)
        + (processed(store_ops, c)
             - (IF c[3] = 0 THEN 0 ELSE processed(store_ops, <<c[1], c[2], c[3] - 1>>)))
        + SumOver(out, others) - SumOver(in, others)

\* C1: after a complete run, for every (j, rho, l) the amount generated equals
\* processed + dropped + (stored at l - stored at l-1) + transferred out -
\* transferred in, for all positive durations, any payload order, noise on or off.
C1_Conservation ==
  RunReturned => \A c \in DOMAIN containers : processed(generate_ops, c) = SimBalance(c)

\* the intervals in which Simulation.run executes a step
IntervalsRun == {t_to_l(k * sim_global.dt) : k \in {k \in 0..duration : k * sim_global.dt < duration}}

\* conservation holds in every run that steps in every interval
ConservationWhenAllRun ==
  (RunReturned /\ IntervalsRun = 0..(indexbound["l"] - 1)) =>
    \A c \in DOMAIN containers : processed(generate_ops, c) = SimBalance(c)

\* C1 fails only through an interval shorter than dt that no step falls into
C1_SkippedInterval ==
  /\ RunReturned
  /\ \E c \in DOMAIN containers :
       c[3] \notin IntervalsRun /\ processed(generate_ops, c) # SimBalance(c)

\* the ops of a dict whose interval is the current one
CurrentOf(ops) == {idx \in DOMAIN ops : ops[idx].val_l = sim_global.l}

\* every current op of the dict has had `method` called in the step under way
AllCalled(method, kind, ops) == \A idx \in CurrentOf(ops) : <<method, kind, idx>> \in done

\* some op of the kinds has had `method` called in the step under way
AnyCalled(method, kinds) == \E e \in done : e[1] = method /\ e[2] \in kinds

\* the op of the dict at idx is left as it is by the transition
Untouched(ops, idx) == ops'[idx] = ops[idx]

\* the order of the calls the step under way has made
CallsInOrder ==
  /\ \A e \in done : op_of([kind |-> e[2], idx |-> e[3]]).val_l = sim_global.l
  /\ AnyCalled("step", {"process", "transfer", "store"})
       => AllCalled("step", "generate", generate_ops)
  /\ AnyCalled("step_teardown", {"transfer", "store"})
       => /\ AllCalled("step", "process", process_ops)
          /\ AllCalled("step", "transfer", transfer_ops)
          /\ AllCalled("step", "store", store_ops)
  /\ AnyCalled("step", {"drop"})
       => /\ AllCalled("step_teardown", "transfer", transfer_ops)
          /\ AllCalled("step_teardown", "store", store_ops)

\* the clock moves by dt, and only after the drop ops; the ops and the
\* containers of the other intervals stay as they are
ClockLastOthersIdle ==
  /\ sim_global' # sim_global
       => /\ AllCalled("step", "drop", drop_ops)
          /\ AnyCalled("step", {"drop"})
          /\ sim_global'.t = sim_global.t + sim_global.dt
  /\ \A idx \in DOMAIN generate_ops \ CurrentOf(generate_ops) : Untouched(generate_ops, idx)
  /\ \A idx \in DOMAIN process_ops \ CurrentOf(process_ops) : Untouched(process_ops, idx)
  /\ \A idx \in DOMAIN transfer_ops \ CurrentOf(transfer_ops) : Untouched(transfer_ops, idx)
  /\ \A idx \in DOMAIN store_ops \ CurrentOf(store_ops) : Untouched(store_ops, idx)
  /\ \A idx \in DOMAIN drop_ops \ CurrentOf(drop_ops) : Untouched(drop_ops, idx)
  /\ \A c \in DOMAIN containers : c[3] # sim_global.l => containers'[c] = containers[c]

\* C9: within one Simulation.step, among the ops of the current interval, every
\* generate op steps before any payload op, every payload op steps before any
\* teardown, every teardown runs before any drop op, and the clock advances
\* only after all drop ops; the ops of other intervals are not called and do
\* not change.  For every order the shuffle gives the payload ops.
C9_StepOrder == []CallsInOrder /\ [][ClockLastOthersIdle]_vars

\* a shuffled step of interval 1 that has been through all four loops, with a
\* transfer among its payload ops
C9_Witness ==
  /\ step_pc = "t_inc"
  /\ shuffle_ops
  /\ sim_global.l = 1
  /\ AnyCalled("step_teardown", {"transfer"})
  /\ AllCalled("step", "drop", drop_ops)

\* the store op at idx steps in the transition
StoreSteps(idx) == <<"step", "store", idx>> \in done' \ done

\* the store op at idx is torn down in the transition
StoreTornDown(idx) == <<"step_teardown", "store", idx>> \in done' \ done

\* the processed amount the store op at idx has begun the step it has just made
\* with: its amount before the step's own share was added
BeganWith(idx) == store_ops[idx].amount_processed - store_ops[idx].amount_proc

\* the same of the step the transition makes
BeginsWith(idx) == store_ops'[idx].amount_processed - store_ops'[idx].amount_proc

\* the store ops of one (j, rho) read and write one processed-memory container
\* and nothing else writes it
SharedMemory ==
  /\ \A idx \in DOMAIN store_ops :
       /\ store_ops[idx].container_processed = <<idx[1], idx[2]>>
       /\ StoreSteps(idx) => BeginsWith(idx) = containers_processed[<<idx[1], idx[2]>>]
       /\ StoreTornDown(idx)
            => containers_processed'[<<idx[1], idx[2]>>] = store_ops'[idx].amount_processed
  /\ containers_processed' # containers_processed
       => \E idx \in DOMAIN store_ops :
            /\ StoreTornDown(idx)
            /\ \A n \in DOMAIN containers_processed \ {<<idx[1], idx[2]>>} :
                 containers_processed'[n] = containers_processed[n]

LastRun(n) ==
  CHOOSE m \in IntervalsRun : m < n /\ \A k \in IntervalsRun : k < n => k <= m

CumulativeTl(n) == SeqSum([k \in 1..(n + 1) |-> tl(k - 1)])

\* the smallest interval that ends after the time
SmallestInterval(time) ==
  CHOOSE n \in 0..(NL - 1) :
    time < CumulativeTl(n) /\ \A m \in 0..(n - 1) : ~ (time < CumulativeTl(m))

\* before the total duration the clock is in the smallest interval that ends
\* after its time
ClockInInterval ==
  sim_global.t < CumulativeTl(NL - 1) => sim_global.l = SmallestInterval(sim_global.t)

\* the time grows by exactly dt and the interval does not decrease
ClockAdvances ==
  sim_global' # sim_global =>
    /\ sim_global'.t = sim_global.t + sim_global.dt
    /\ sim_global'.dt = sim_global.dt
    /\ sim_global'.l >= sim_global.l

AllTlPositive == \A n \in 0..(NL - 1) : tl(n) > 0

\* C11: for every assignment of non-negative durations, the clock starts at
\* t = 0, is before the total duration in the smallest interval l with
\* t < tl[0] + ... + tl[l], advances by exactly dt, and l never decreases
C11_ClockInterval ==
  /\ sim_global.t = 0
  /\ [] ClockInInterval
  /\ [][ClockAdvances]_vars

\* C11, for positive durations: the clock starts at t = 0, is before the total
\* duration in the smallest interval l with t < tl[0] + ... + tl[l], advances
\* by exactly dt, and l never decreases; a duration of 0 fails the construction
\* of the simulation with ZeroDivisionError before its first step
C11_ClockIntervalPositive ==
  /\ sim_global.t = 0
  /\ [] (AllTlPositive => ClockInInterval)
  /\ [][ClockAdvances]_vars
  /\ [] (step_pc = "run" => AllTlPositive)
  /\ [] (step_pc = "ZeroDivisionError" => (~ AllTlPositive /\ sim_global.t = 0))

\* the clock has left interval 0 and the simulation is not finished
C11_Witness ==
  /\ step_pc = "run"
  /\ sim_global.t > 0
  /\ sim_global.l > 0
  /\ ~ is_finished
  /\ sim_global.l = SmallestInterval(sim_global.t)

(***************************************************************************)
(* Properties of the quality.                                              *)
(***************************************************************************)
\* the sum of the processed amounts of all the ops of a dict
TotalProcessed(ops) == SumOver(LAMBDA c : ops[c].amount_processed, DOMAIN ops)

StoredWeight(name) == IF <<name>> \in DOMAIN provider THEN provider[<<name>>] ELSE 0

C12_WitnessDropped ==
  /\ ret.op = "quality"
  /\ ret.result.ok
  /\ StoredWeight("alpha_1") = 1
  /\ ret.result.val < 0
  /\ TotalProcessed(transfer_ops) > 0

\* quality has raised AssertionError: the weights do not sum to 1
C12_QualityRaised == ret.op = "quality" /\ ~ ret.result.ok

(***************************************************************************)
(* Properties of the orchestration.                                        *)
(***************************************************************************)
\* every (key, value) of the store a is in the store b
StoreWithin(a, b) == \A key \in DOMAIN a : key \in DOMAIN b /\ b[key] = a[key]

\* how many of the calls run has made are calls of `name`
CallCount(name) == Cardinality({k \in DOMAIN opt_hist.calls : opt_hist.calls[k] = name})

\* the calls of the loop come as solve, ga, update, solve, ga, update, ...
LoopCallsInOrder ==
  \A k \in DOMAIN opt_hist.calls :
    /\ opt_hist.calls[k] = "solve" => (k = 1 \/ opt_hist.calls[k - 1] = "update")
    /\ opt_hist.calls[k] = "ga" => (k > 1 /\ opt_hist.calls[k - 1] = "solve")
    /\ opt_hist.calls[k] = "update" => (k > 1 /\ opt_hist.calls[k - 1] = "ga")
    /\ opt_hist.calls[k] = "update_csv" => (k = 1 \/ opt_hist.calls[k - 1] = "update")

\* C13: the scratch store holds every entry of the persistent store before
\* the first LP solve; a run that returns has made exactly
\* conf_stop_n_iterations iterations; in each the LP solve is over before the
\* GA run starts, and the best store of the GA is within the scratch store
\* before the LP solve of the next iteration
C13_Iterations ==
  /\ (virt_opt.pc \in {"constructed", "loop"} /\ opt_hist.calls = <<>>)
       => StoreWithin(csv_provider, provider)
  /\ virt_opt.pc \in {"loop", "ga", "update", "returned"} => LoopCallsInOrder
  /\ virt_opt.pc = "returned" =>
       /\ virt_opt.iterations = virt_opt.conf_stop_n_iterations
       /\ CallCount("solve") = virt_opt.conf_stop_n_iterations
       /\ CallCount("ga") = virt_opt.conf_stop_n_iterations
       /\ CallCount("update") = virt_opt.conf_stop_n_iterations
  /\ (virt_opt.pc = "loop" /\ virt_opt.iterations > 0)
       => StoreWithin(best_performer_config, provider)

\* a run with the default of 20 iterations has returned
C13_Witness ==
  /\ virt_opt.pc = "returned"
  /\ virt_opt.conf_stop_n_iterations = CONF_STOP_N_ITERATIONS
  /\ virt_opt.iterations = 20
  /\ CallCount("solve") = 20
  /\ DOMAIN opt_hist.loaded # {}
  /\ StoreWithin(opt_hist.loaded, provider)

\* the persistent store changes only when it is loaded and when run has made
\* all its iterations
PersistentWrittenAtEnd ==
  csv_provider' # csv_provider =>
    \/ virt_opt.pc = "new"
    \/ /\ virt_opt.pc = "loop"
       /\ virt_opt.iterations = virt_opt.conf_stop_n_iterations
       /\ CallCount("update") = virt_opt.conf_stop_n_iterations

\* run has raised, or the VirtOpt was destroyed after run had raised
RunRaised ==
  \/ virt_opt.pc = "raised"
  \/ \E k \in DOMAIN opt_hist.calls : opt_hist.calls[k] = "__del__ after raised"

\* C14: the persistent store is modified only after all the iterations of
\* run have completed, and if an LP solve or a GA run fails it holds exactly
\* what was loaded at construction
C14_PersistentUntouched ==
  /\ [][PersistentWrittenAtEnd]_vars
  /\ [] (RunRaised => csv_provider = opt_hist.loaded)

\* a GA run has failed after an iteration that succeeded and changed the
\* scratch store
C14_Witness ==
  /\ virt_opt.pc = "raised"
  /\ virt_opt.iterations >= 1
  /\ opt_hist.calls[Len(opt_hist.calls)] = "ga"
  /\ provider # csv_provider
  /\ csv_provider = opt_hist.loaded

\* an LP solve has failed
C14_WitnessSolve ==
  /\ virt_opt.pc = "raised"
  /\ pc = "solve_failed"
  /\ csv_provider = opt_hist.loaded

\* the file is written by run only
FileWrittenByRun ==
  csv_file' # csv_file => virt_opt.pc \in {"loop", "ga", "update"}

\* C15: when run has returned every (key, value) of the scratch store is in
\* the persistent store and the file has been written exactly once, by run
\* and never by the destruction of a data interface
C15_FlushedOnce ==
  /\ [] (virt_opt.pc = "returned" => (StoreWithin(provider, csv_provider) /\ csv_file.writes = 1))
  /\ [][FileWrittenByRun]_vars

\* when run has returned the scratch store is within the persistent store,
\* and the file is as it was: it is written when the VirtOpt is destroyed
C15_FlushedOnDestruction ==
  /\ [] (virt_opt.pc = "returned" =>
           (StoreWithin(provider, csv_provider) /\ csv_file.writes = 0
              /\ csv_load(csv_file.rows) = opt_hist.loaded))
  /\ [][csv_file' # csv_file => (virt_opt'.pc = "deleted" /\ csv_file'.rows = csv_rows(csv_provider))]_vars

\* the file has been written after a run that returned
C15_WrittenAfterReturn ==
  /\ virt_opt.pc = "deleted"
  /\ csv_file.writes = 1
  /\ opt_hist.calls[Len(opt_hist.calls)] = "__del__ after returned"
  /\ csv_load(csv_file.rows) # opt_hist.loaded

(***************************************************************************)
(* Properties of the checks of get_pos.                                    *)
(***************************************************************************)
\* C16: get_pos accepts a call only if the variable is one of the row, the
\* index names given are the declared ones and every index value i has
\* 0 <= i < bound (a value equal to the bound is rejected), so that the
\* position of an accepted call is within [0, rowLen) and is the position of
\* no other (variable, index tuple)
C16_GetPosRejects ==
  (ret.op = "get_pos" /\ get_pos_asserts(ret.variable, ret.idx)) =>
    /\ ret.variable \in Range(variables)
    /\ DOMAIN ret.idx = Range(variableindices[ret.variable])
    /\ \A n \in DOMAIN ret.idx : 0 <= ret.idx[n] /\ ret.idx[n] < indexbound[n]
    /\ 0 <= ret.val /\ ret.val < get_row_len
    /\ \A inst \in RowInstances : get_pos(inst[1], inst[2]) = ret.val => inst = <<ret.variable, ret.idx>>

\* get_pos has returned a position for an index value equal to its bound
C16_BoundAccepted ==
  /\ ret.op = "get_pos"
  /\ get_pos_asserts(ret.variable, ret.idx)
  /\ \E n \in DOMAIN ret.idx : ret.idx[n] = indexbound[n]
  /\ \/ ret.val >= get_row_len
     \/ \E inst \in RowInstances : inst # <<ret.variable, ret.idx>> /\ get_pos(inst[1], inst[2]) = ret.val

\* the calls get_pos rejects are the calls with an unknown variable, other
\* index names than the declared ones, or an index value i outside
\* 0 <= i <= bound
C16_RejectsBeyondBound ==
  ret.op = "get_pos" =>
    (get_pos_asserts(ret.variable, ret.idx) <=>
       /\ ret.variable \in Range(variables)
       /\ DOMAIN ret.idx = Range(variableindices[ret.variable])
       /\ \A n \in DOMAIN ret.idx : ret.idx[n] \in 0..indexbound[n])

(***************************************************************************)
(* Properties of the reads of the data store.                              *)
(***************************************************************************)
\* the index names given to the get are the declared ones of its variable
DeclaredNames == DOMAIN ret.idx = Range(variableindices[ret.variable])

\* the key of the store a read was for
ReadKey ==
  IF ret.op = "get_plain" THEN ret.key
  ELSE <<ret.variable>> \o [k \in DOMAIN variableindices[ret.variable] |->
                             ret.idx[variableindices[ret.variable][k]]]

\* a get_plain, or a get with the declared index names, has been made
KeyRead == ret.op = "get_plain" \/ (ret.op = "get" /\ DeclaredNames)

\* what a read of an absent or a present key gives
ReadResult ==
  KeyRead =>
    /\ (ReadKey \notin DOMAIN provider /\ ret.interface = "DataInterface") => ~ ret.result.ok
    /\ (ReadKey \notin DOMAIN provider /\ ret.interface = "ZeroingDataInterface")
         => (ret.result.ok /\ ret.result.val = 0)
    /\ ReadKey \in DOMAIN provider => (ret.result.ok /\ ret.result.val = provider[ReadKey])

\* a step that makes a read leaves the store as it is
ReadKeepsStore == ret' # ret => provider' = provider

\* C17: for an absent key DataInterface.get and get_plain fail and
\* ZeroingDataInterface.get and get_plain return 0.0, for a present key both
\* return the stored value, and no read inserts a key into the store or
\* changes a value of it
C17_Reads == [] ReadResult /\ [][ReadKeepsStore]_vars

\* a zeroing get has returned 0.0 for a key absent from a store that is not
\* empty
C17_Witness ==
  /\ ret.op = "get"
  /\ DeclaredNames
  /\ ret.interface = "ZeroingDataInterface"
  /\ ReadKey \notin DOMAIN provider
  /\ ret.result.val = 0
  /\ DOMAIN provider # {}

\* a get of the base interface has failed for an absent key
C17_WitnessFailed ==
  /\ KeyRead
  /\ ret.interface = "DataInterface"
  /\ ReadKey \notin DOMAIN provider
  /\ ~ ret.result.ok

\* a read has returned the stored value
C17_WitnessPresent ==
  /\ KeyRead
  /\ ReadKey \in DOMAIN provider
  /\ ret.result.val = provider[ReadKey]
  /\ ret.result.val > 0

\* C18: a ZeroingDataInterface.get whose index names are not the declared
\* ones of the variable raises an error instead of returning 0.0
C18_ZeroingPropagates ==
  (ret.op = "get" /\ ret.interface = "ZeroingDataInterface" /\ ~ DeclaredNames) => ~ ret.result.ok

\* a ZeroingDataInterface.get with other index names than the declared ones
\* has returned 0.0, where the same get of DataInterface raises
C18_MismatchZeroed ==
  /\ ret.op = "get"
  /\ ret.interface = "ZeroingDataInterface"
  /\ ~ DeclaredNames
  /\ ret.result.ok
  /\ ret.result.val = 0
  /\ ~ DataInterface_get(ret.variable, ret.idx).ok

(***************************************************************************)
(* Properties of the plans of the two scenarios.                           *)
(***************************************************************************)
Min3(a, b, c) == IF a <= b /\ a <= c THEN a ELSE IF b <= c THEN b ELSE c

\* the planner has written its plan for an instance of the transfer
TransferSolved == pc = "solved" /\ indexbound = TransferSchema

\* C19: with two nodes, one load and one interval, phi(0) = 0, psi(1->0) = 0,
\* no memory and arrivals at node 0 only, the plan has g(0) = 0,
\* g(1) = min(x_eq(0), phi(1), psi(0->1)), x(0->1) >= g(1) and
\* z(0) + z(1) = x_eq(0) - g(1)
C19_TransferPlan ==
  TransferSolved =>
    /\ provider[<<"g", 0, 0, 0>>] = 0
    /\ provider[<<"g", 1, 0, 0>>] =
         Min3(StoredOrZero(<<"x_eq", 0, 0, 0>>), StoredOrZero(<<"phi", 1, 0, 0>>),
              StoredOrZero(<<"psi", 0, 1, 0, 0>>))
    /\ provider[<<"x", 0, 1, 0, 0>>] >= provider[<<"g", 1, 0, 0>>]
    /\ provider[<<"z", 0, 0, 0>>] + provider[<<"z", 1, 0, 0>>]
         = StoredOrZero(<<"x_eq", 0, 0, 0>>) - provider[<<"g", 1, 0, 0>>]

\* a plan in which the processing capacity of node 1 caps what is processed
\* and the rest of the arrivals is dropped
C19_Witness ==
  /\ TransferSolved
  /\ StoredOrZero(<<"x_eq", 0, 0, 0>>) = 3
  /\ StoredOrZero(<<"phi", 1, 0, 0>>) = 1
  /\ StoredOrZero(<<"psi", 0, 1, 0, 0>>) = 2
  /\ provider[<<"g", 1, 0, 0>>] = 1
  /\ provider[<<"x", 0, 1, 0, 0>>] = 2
  /\ provider[<<"z", 0, 0, 0>>] + provider[<<"z", 1, 0, 0>>] = 2

\* the planner has written its plan for the instance of the carry-over
CarryoverSolved == pc = "solved" /\ indexbound = CarryoverSchema

\* C20: with one node and two intervals, x_eq = 100 and 0, phi = 40 and 80
\* and a memory of 100 (5, 0, 2, 4 and 5 units of 20), the plan has g(l=0) = 40,
\* y(l=0) = 60, g(l=1) = 60 and y(l=1) = 0, as every optimal solution has
C20_CarryoverPlan ==
  CarryoverSolved =>
    /\ provider[<<"g", 0, 0, 0>>] = 2
    /\ provider[<<"y", 0, 0, 0>>] = 3
    /\ provider[<<"g", 0, 0, 1>>] = 3
    /\ provider[<<"y", 0, 0, 1>>] = 0

\* C20, as the constructed LP has it: every optimal solution processes all
\* the arrivals over the two intervals, g(l=0) + g(l=1) = 100 with
\* 20 <= g(l=0) <= 40, stores y(l=0) = g(l=1) and y(l=1) = 0 and drops nothing
C20_CarryoverOptima ==
  CarryoverSolved =>
    /\ provider[<<"g", 0, 0, 0>>] + provider[<<"g", 0, 0, 1>>] = 5
    /\ provider[<<"g", 0, 0, 0>>] \in 1..2
    /\ provider[<<"y", 0, 0, 0>>] = provider[<<"g", 0, 0, 1>>]
    /\ provider[<<"y", 0, 0, 1>>] = 0
    /\ provider[<<"z", 0, 0, 0>>] = 0
    /\ provider[<<"z", 0, 0, 1>>] = 0

\* the plan g = 40, 60 and y = 60, 0 is an optimal solution
C20_Witness ==
  /\ CarryoverSolved
  /\ provider[<<"g", 0, 0, 0>>] = 2
  /\ provider[<<"y", 0, 0, 0>>] = 3
  /\ provider[<<"g", 0, 0, 1>>] = 3
  /\ provider[<<"y", 0, 0, 1>>] = 0

\* the plan g = 20, 80 and y = 80, 0 is an optimal solution as well
C20_OtherOptimum ==
  /\ CarryoverSolved
  /\ provider[<<"g", 0, 0, 0>>] = 1
  /\ provider[<<"y", 0, 0, 0>>] = 4
  /\ provider[<<"g", 0, 0, 1>>] = 4
  /\ provider[<<"y", 0, 0, 1>>] = 0

(***************************************************************************)
(* Properties of the feasibility of the planner's system.                  *)
(***************************************************************************)
\* no row of arrivals of the data file is negative
NonNegativeArrivals == \A key \in DOMAIN provider : key[1] = "x_eq" => provider[key] >= 0

\* the point that drops every arrival where it arrives: z = x_eq, and 0 for
\* every x, y and g
DropAllPoint ==
  [p \in 0..(get_row_len - 1) |->
     IF \E c \in Cells : get_pos("z", c) = p
     THEN StoredOrZero(<<"x_eq", (CHOOSE c \in Cells : get_pos("z", c) = p)["j"],
                         (CHOOSE c \in Cells : get_pos("z", c) = p)["rho"],
                         (CHOOSE c \in Cells : get_pos("z", c) = p)["l"]>>)
     ELSE 0]

\* the point satisfies every row of the equality system and every bound
DropAllFeasible ==
  /\ \A r \in DOMAIN eq_lhs : Dot(eq_lhs[r], DropAllPoint, get_row_len) = eq_rhs[r]
  /\ \A p \in DOMAIN bnd :
       /\ bnd[p].lower <= DropAllPoint[p]
       /\ bnd[p].inf \/ DropAllPoint[p] <= bnd[p].upper

\* C21: when no arrival is negative (and no capacity is), the point z = x_eq
\* with every x, y, g at 0 satisfies every balance row and every bound of the
\* constructed planner, and solve does not fail: it returns status 0
C21_Feasible ==
  (Constructed /\ NonNegativeArrivals) =>
    /\ DropAllFeasible
    /\ pc # "solve_failed"
    /\ pc = "solved" => solution.status = 0

\* solve has returned status 0 for arrivals that nothing can process, store
\* or transfer: the plan drops them all
C21_Witness ==
  /\ pc = "solved"
  /\ solution.status = 0
  /\ \E key \in DOMAIN provider : key[1] = "x_eq" /\ provider[key] > 0
  /\ \A key \in DOMAIN provider : key[1] \notin {"psi", "v", "phi"}
  /\ solution.x = DropAllPoint
  /\ \E p \in DOMAIN solution.x : solution.x[p] > 0

(***************************************************************************)
(* Properties of a second run.                                             *)
(***************************************************************************)
\* the run under way is the second one, begun in the way `how`
SecondRun(how) == trace.on /\ trace.run = 2 /\ trace.how = how

\* every step the run under way has made left behind what the same step of
\* the run before it left behind
SameSteps == \A k \in DOMAIN trace.steps : k \in DOMAIN trace.first => trace.steps[k] = trace.first[k]

JustReset == SecondRun("reset") /\ trace.steps = <<>> /\ step_pc = "run"

\* the clock is at its start and every op has processed nothing
ClockAndOpsFresh ==
  /\ sim_global.t = 0
  /\ sim_global.l = 0
  /\ \A idx \in DOMAIN generate_ops : generate_ops[idx].amount_processed = 0
  /\ \A idx \in DOMAIN drop_ops : drop_ops[idx].amount_processed = 0
  /\ \A idx \in DOMAIN process_ops : process_ops[idx].amount_processed = 0
  /\ \A idx \in DOMAIN store_ops : store_ops[idx].amount_processed = 0
  /\ \A idx \in DOMAIN transfer_ops : transfer_ops[idx].amount_processed = 0

\* C27: after Simulation.reset() the clock is at t = 0, l = 0, every op has
\* processed 0 and every container holds 0, the (j, rho, l) input containers
\* and the (j, rho) processed-memory containers alike, and the run that
\* follows leaves behind what a first run leaves behind
C27_ResetFresh ==
  /\ JustReset =>
       /\ ClockAndOpsFresh
       /\ \A c \in DOMAIN containers : containers[c] = 0
       /\ \A c \in DOMAIN containers_processed : containers_processed[c] = 0
  /\ SecondRun("reset") => SameSteps

\* what Simulation.reset() does clear: the clock, the ops and the input
\* containers
C27_ResetClears ==
  JustReset => ClockAndOpsFresh /\ \A c \in DOMAIN containers : containers[c] = 0

\* a processed-memory container still holds what the first run stored
C27_MemoryKept ==
  /\ JustReset
  /\ \E c \in DOMAIN containers_processed : containers_processed[c] > 0

\* a step of the run after reset() left behind something else than the same
\* step of the first run
C27_RunAffected == SecondRun("reset") /\ ~ SameSteps


(***************************************************************************)
(* Properties of the genes.                                                *)
(***************************************************************************)
\* the cells of the slice of position k sum to 1
SliceSumsToOne(gene, k) ==
  slice_sum(gene, slice(k), slice_den(gene, slice(k))) = slice_den(gene, slice(k))

Calls(method, kind, idx) == <<method, kind, idx>> \in done' /\ <<method, kind, idx>> \notin done

\* the input container of the op of a call
CallContainer(call) ==
  CASE call[2] = "generate" -> generate_ops[call[3]].container_input
    [] call[2] = "process" -> process_ops[call[3]].container_input
    [] call[2] = "transfer" -> transfer_ops[call[3]].container_input
    [] call[2] = "store" -> store_ops[call[3]].container_input
    [] call[2] = "drop" -> drop_ops[call[3]].container_input

\* what a transition does about the transfer op idx: its step debits the
\* sender's container by the amount it stashes, and leaves the receiver's
\* container and its processed total alone; while the payload ops run the
\* stash and the processed total stay, and a container changes only by the
\* step of an op that has it as its input; its teardown credits the stash to
\* the receiver's container and to its processed total
TransferDelivery(idx) ==
  LET op == transfer_ops[idx]
      sender == op.container_input
      receiver == op.container_output
  IN  /\ Calls("step", "transfer", idx) =>
           /\ containers'[sender] = containers[sender] - transfer_ops'[idx].proc_step
           /\ containers'[receiver] = containers[receiver]
           /\ transfer_ops'[idx].amount_processed = op.amount_processed
      /\ (step_pc = "payload" /\ ~ Calls("step", "transfer", idx)) =>
           /\ transfer_ops'[idx] = op
           /\ containers'[receiver] # containers[receiver] =>
                \E call \in done' \ done : call[1] = "step" /\ CallContainer(call) = receiver
      /\ Calls("step_teardown", "transfer", idx) =>
           /\ step_pc = "teardown"
           /\ containers'[receiver] = containers[receiver] + op.proc_step
           /\ transfer_ops'[idx].amount_processed = op.amount_processed + op.proc_step
           /\ transfer_ops'[idx].proc_step = 0

TransferDeliveries == \A idx \in DOMAIN transfer_ops : TransferDelivery(idx)

\* C24: in whatever order the payload ops of a step run, what a transfer op
\* takes from the sender's container in its step is not in the receiver's
\* container while payload ops run; the teardown credits it to the receiver's
\* container and to the op's processed total, as much as was debited
C24_TransferDelivery == [][TransferDeliveries]_vars

\* a transfer op has taken something from the sender, and an op of the
\* receiving node, whose container holds nothing, is still to step
C24_Witness ==
  /\ step_pc = "payload"
  /\ shuffle_ops
  /\ \E idx \in DOMAIN transfer_ops :
       /\ <<"step", "transfer", idx>> \in done
       /\ transfer_ops[idx].proc_step > 0
       /\ containers[transfer_ops[idx].container_output] = 0
       /\ \E k \in DOMAIN todo :
            /\ todo[k].kind = "process"
            /\ op_of(todo[k]).container_input = transfer_ops[idx].container_output


\* the processed amounts of the ops of a dict
Amounts(ops) == {ops[idx].amount_processed : idx \in DOMAIN ops}

\* C25: in every state of a run, in whatever order the payload ops step and
\* with or without noise, no input container, no processed-memory container
\* and no op's processed amount is negative; an op that takes from its input
\* container therefore never takes more than the container holds
C25_NonNegative ==
  /\ \A c \in DOMAIN containers : containers[c] >= 0
  /\ \A c \in DOMAIN containers_processed : containers_processed[c] >= 0
  /\ \A a \in Amounts(generate_ops) \cup Amounts(process_ops) \cup Amounts(transfer_ops)
               \cup Amounts(store_ops) \cup Amounts(drop_ops) : a >= 0

\* with noise and shuffling, a store op has given back part of what it stored
\* and a payload op has emptied a container that held something
C25_Witness ==
  /\ use_noise
  /\ shuffle_ops
  /\ step_pc = "payload"
  /\ \E idx \in DOMAIN store_ops :
       /\ <<"step", "store", idx>> \in done
       /\ store_ops[idx].amount_proc < 0
  /\ \E idx \in DOMAIN process_ops :
       /\ <<"step", "process", idx>> \in done
       /\ process_ops[idx].amount_processed > 0
       /\ containers[process_ops[idx].container_input] = 0


\* the transfer ops that deliver to the container c
DeliveringTo(c) == {idx \in DOMAIN transfer_ops : transfer_ops[idx].container_output = c}

\* what the transfer ops have delivered to the container c
Delivered(c) == SetSum([idx \in DeliveringTo(c) |-> transfer_ops[idx].amount_processed], DeliveringTo(c))

\* between two steps every input container is empty
EmptyBetweenSteps == step_pc = "run" => \A c \in DOMAIN containers : containers[c] = 0

\* C26: after every Simulation.step every input container holds 0, the drop
\* op having absorbed the residual with what transfer teardowns credited in
\* that step, so that what a transfer delivers is counted as dropped at the
\* receiving node (and none of it is kept for a later step)
C26_DeliveredDropped ==
  /\ EmptyBetweenSteps
  /\ step_pc = "run" => \A c \in DOMAIN drop_ops : drop_ops[c].amount_processed >= Delivered(c)

\* what a transition of the teardown and drop loops does to the containers:
\* the drop op moves all its container holds to its processed total; before
\* that a container loses something only to the teardown of its store op,
\* which takes back no more than it gave back in its step; and when the step
\* returns every container is empty
ResidualDropped ==
  /\ step_pc' = "run" => \A c \in DOMAIN containers : containers'[c] = 0
  /\ \A idx \in DOMAIN drop_ops :
       Calls("step", "drop", idx) =>
         /\ drop_ops'[idx].amount_processed =
              drop_ops[idx].amount_processed + containers[drop_ops[idx].container_input]
         /\ containers'[drop_ops[idx].container_input] = 0
  /\ \A c \in DOMAIN containers :
       (step_pc \in {"teardown", "drop"} /\ containers'[c] < containers[c]) =>
         \/ \E idx \in DOMAIN drop_ops : Calls("step", "drop", idx) /\ drop_ops[idx].container_input = c
         \/ \E idx \in DOMAIN store_ops :
              /\ Calls("step_teardown", "store", idx)
              /\ store_ops[idx].container_input = c
              /\ store_ops[idx].amount_proc < 0
              /\ containers[c] - containers'[c] <= 0 - store_ops[idx].amount_proc

\* C26, amended: the drop op absorbs what is left of a delivered amount once
\* the store op's teardown has taken its part back
C26_ResidualDropped == [][ResidualDropped]_vars

\* a step has returned in which a transfer delivered and the drop op of the
\* receiving node dropped less than that: its store op took it back
C26_Witness ==
  /\ step_pc = "run"
  /\ \A c \in DOMAIN containers : containers[c] = 0
  /\ \E c \in DOMAIN drop_ops :
       /\ Delivered(c) > drop_ops[c].amount_processed
       /\ \E idx \in DOMAIN store_ops :
            store_ops[idx].container_input = c /\ store_ops[idx].amount_processed > 0


(***************************************************************************)
(* Properties of the termination of a run.                                 *)
(***************************************************************************)
\* the steps made so far: every step adds dt to t
StepsMade == sim_global.t \div sim_global.dt

\* the steps after which t has reached or exceeded the total duration
StepsNeeded == (duration + sim_global.dt - 1) \div sim_global.dt

\* Simulation.run has returned
RunFinished == step_pc = "run" /\ is_finished

\* once finished, no step is made
NoStepWhenFinished == is_finished => sim_global' = sim_global

\* C28: for every assignment of non-negative durations, Simulation.run
\* terminates, after exactly the steps t needs to reach or exceed the total
\* duration (none when the total is 0), and makes no step after that
C28_Terminates ==
  /\ <> RunFinished
  /\ [] (RunFinished => StepsMade = StepsNeeded)
  /\ [][NoStepWhenFinished]_vars

\* C28, for positive durations: Simulation.run terminates after exactly the
\* steps t needs to reach or exceed the total duration and makes no step after
\* that; with a duration of 0 the simulation is not constructed and never run
C28_TerminatesPositive ==
  /\ AllTlPositive => <> RunFinished
  /\ [] (RunFinished => StepsMade = StepsNeeded)
  /\ [][NoStepWhenFinished]_vars
  /\ [] (~ AllTlPositive => step_pc # "run")

\* a run has returned after several steps, the last of which took t beyond
\* the total duration
C28_Witness ==
  /\ RunFinished
  /\ StepsMade > 2
  /\ sim_global.t > duration


(***************************************************************************)
(* Properties of VirtHelper.t_to_l.                                        *)
(***************************************************************************)
\* t_to_l has been called with a time at or beyond the total duration
CalledBeyond == ret.op = "t_to_l" /\ ret.time >= duration

\* below the total duration t_to_l returns the smallest l with
\* t < tl[0] + ... + tl[l]
BelowDuration ==
  (ret.op = "t_to_l" /\ ret.time < duration) =>
    ret.returns /\ ret.val = SmallestInterval(ret.time)

\* C29: t_to_l(t) returns the index of the last interval for every t at or
\* beyond the total duration, and below it the smallest l with
\* t < tl[0] + ... + tl[l]
C29_FinalInterval ==
  /\ BelowDuration
  /\ CalledBeyond => (ret.returns /\ ret.val = get_index_bound("l") - 1)

\* what t_to_l does do: the smallest interval below the total duration, and
\* no return value (None) at or beyond it
C29_NoneBeyond ==
  /\ BelowDuration
  /\ CalledBeyond => (~ ret.returns /\ ret.val = None)

\* t_to_l(t) for t equal to the total duration of positive durations
C29_CalledAtDuration == CalledBeyond /\ ret.time = duration /\ AllTlPositive


(***************************************************************************)
(* C30: the linear program of the planner is built once                    *)
(***************************************************************************)

\* the linear program the planner holds: what solve hands to linprog
PlannerLP == <<eq_lhs, eq_rhs, bnd, obj>>

\* run has constructed the planner: the loop, or what follows it
PlannerConstructed == virt_opt.pc \notin {"new", "constructed"}

\* no step after the construction of the planner changes its linear program
LPKept == PlannerConstructed => PlannerLP' = PlannerLP

====
